---------------------------- MODULE Spec2Model ----------------------------
(* A model of the supergfxctl mode-switch engine: the action planner       *)
(* (actions.rs), the executor of staged actions, the D-Bus entry points    *)
(* set_mode / set_config (zbus_iface.rs) and the persisted configuration   *)
(* (config.rs).                                                            *)
EXTENDS Integers, Sequences, FiniteSets, TLC

(***************************************************************************)
(* Enumerations (pci_device.rs, actions.rs)                                *)
(***************************************************************************)
GfxMode ==
    {"Hybrid", "Integrated", "NvidiaNoModeset", "Vfio", "AsusEgpu", "AsusMuxDgpu", "None"}

GfxVendor ==
    {"Nvidia", "Amd", "Intel", "Unknown", "AsusDgpuDisabled"}

HotplugType ==
    {"Std", "Asus", "None"}

UserActionRequired ==
    {"Logout", "Reboot", "SwitchToIntegrated", "AsusEgpuDisable", "Nothing"}

StagedAction ==
    {"WaitLogout", "StopDisplayManager", "StartDisplayManager", "NoLogind",
     "SendDetachEvent", "LoadGpuDrivers", "UnloadGpuDrivers", "KillNvidia", "KillAmd",
     "EnableNvidiaPersistenced", "DisableNvidiaPersistenced", "EnableNvidiaPowerd",
     "DisableNvidiaPowerd", "LoadVfioDrivers", "UnloadVfioDrivers", "DevTreeManaged",
     "RescanPci", "UnbindRemoveGpu", "UnbindGpu", "HotplugUnplug", "HotplugPlug",
     "AsusDgpuDisable", "AsusDgpuEnable", "AsusEgpuDisable", "AsusEgpuEnable",
     "AsusMuxIgpu", "AsusMuxDgpu", "WriteModprobeConf", "CheckVulkanIcd", "NotNvidia",
     "None"}

\* enum Action { UserAction(UserActionRequired), StagedActions(Vec<StagedAction>) }
UserAction(u) == [kind |-> "UserAction", action |-> u]

StagedActions(s) == [kind |-> "StagedActions", steps |-> s]

Contains(s, x) == \E i \in 1..Len(s) : s[i] = x

(***************************************************************************)
(* StagedAction::action_list_for_switch, the steps resolved up front       *)
(***************************************************************************)
\* A plausible slip: only no_logind is consulted.
LogindGatingOnlyNoLogind(config) == ~config.no_logind

\* if !config.no_logind & !config.always_reboot { real steps } else NoLogind
LogindGating(config) == ~config.no_logind /\ ~config.always_reboot

wait_logout_step(config) == IF LogindGating(config) THEN "WaitLogout" ELSE "NoLogind"

stop_display_step(config) == IF LogindGating(config) THEN "StopDisplayManager" ELSE "NoLogind"

\* A plausible slip: the display manager is never started again.
start_display_step_never(config) == "NoLogind"

start_display_step(config) == IF LogindGating(config) THEN "StartDisplayManager" ELSE "NoLogind"

\* A plausible slip: every dGPU is killed the Nvidia way.
kill_gpu_use_always_nvidia(vendor) == "KillNvidia"

\* kill_gpu_use of the switch planner: NotNvidia, KillNvidia for Nvidia, KillAmd for Amd
kill_gpu_use_switch(vendor) ==
    IF vendor = "Nvidia" THEN "KillNvidia"
    ELSE IF vendor = "Amd" THEN "KillAmd"
    ELSE "NotNvidia"

\* A plausible slip: the removal step ignores hotplug_type.
hotplug_rm_type_std_only(config) == "HotplugUnplug"

\* hotplug_rm_type
hotplug_rm_type(config) ==
    CASE config.hotplug_type = "Std" -> "HotplugUnplug"
      [] config.hotplug_type = "Asus" -> "AsusDgpuDisable"
      [] config.hotplug_type = "None" -> "DevTreeManaged"

\* A plausible slip: the add step is taken to be managed by the device tree whatever
\* the hotplug type.
hotplug_add_type_dev_tree(config) == "DevTreeManaged"

\* hotplug_add_type
hotplug_add_type(config) ==
    CASE config.hotplug_type = "Std" -> "HotplugPlug"
      [] config.hotplug_type = "Asus" -> "AsusDgpuEnable"
      [] config.hotplug_type = "None" -> "DevTreeManaged"

\* The locals of action_list_for_switch before its match: the persistenced and
\* powerd steps are the real steps for every vendor.
SwitchLocals(config, vendor) ==
    [wait_logout |-> wait_logout_step(config),
     stop_display |-> stop_display_step(config),
     start_display |-> start_display_step(config),
     kill_gpu_use |-> kill_gpu_use_switch(vendor),
     disable_nvidia_persistenced |-> "DisableNvidiaPersistenced",
     enable_nvidia_persistenced |-> "EnableNvidiaPersistenced",
     disable_nvidia_powerd |-> "DisableNvidiaPowerd",
     enable_nvidia_powerd |-> "EnableNvidiaPowerd",
     hotplug_rm_type |-> hotplug_rm_type(config),
     hotplug_add_type |-> hotplug_add_type(config)]

(***************************************************************************)
(* action_list_for_switch, one operator per arm of `match from`            *)
(***************************************************************************)
\* A plausible slip: the Hybrid -> Hybrid arm re-applies the mode.
SwitchFromHybridReapply(l, to) ==
    StagedActions(<<"WriteModprobeConf", "CheckVulkanIcd">>)

SwitchFromHybrid(l, to) ==
    CASE to = "Integrated" ->
           StagedActions(<<l.wait_logout, l.stop_display, l.disable_nvidia_persistenced,
                           l.disable_nvidia_powerd, l.kill_gpu_use, "UnloadGpuDrivers",
                           "UnbindRemoveGpu", "WriteModprobeConf", "CheckVulkanIcd",
                           l.hotplug_rm_type, l.start_display>>)
      [] to = "Vfio" -> UserAction("SwitchToIntegrated")
      [] to = "AsusEgpu" ->
           StagedActions(<<l.wait_logout, l.stop_display, l.disable_nvidia_persistenced,
                           l.disable_nvidia_powerd, l.kill_gpu_use, "UnloadGpuDrivers",
                           "UnbindRemoveGpu", "WriteModprobeConf", "CheckVulkanIcd",
                           "AsusEgpuEnable", "RescanPci", "LoadGpuDrivers",
                           l.enable_nvidia_persistenced, l.enable_nvidia_powerd,
                           l.start_display>>)
      [] to = "AsusMuxDgpu" ->
           StagedActions(<<"CheckVulkanIcd", l.enable_nvidia_persistenced,
                           l.enable_nvidia_powerd, "AsusMuxDgpu">>)
      [] to \in {"Hybrid", "NvidiaNoModeset", "None"} -> UserAction("Nothing")

SwitchFromIntegrated(l, to) ==
    CASE to = "Hybrid" ->
           StagedActions(<<l.wait_logout, l.stop_display, "WriteModprobeConf",
                           "CheckVulkanIcd", l.hotplug_add_type, "RescanPci",
                           "LoadGpuDrivers", l.enable_nvidia_persistenced,
                           l.enable_nvidia_powerd, l.start_display>>)
      [] to = "NvidiaNoModeset" ->
           StagedActions(<<"WriteModprobeConf", "CheckVulkanIcd", "RescanPci",
                           "LoadGpuDrivers", l.enable_nvidia_persistenced,
                           l.enable_nvidia_powerd>>)
      [] to = "Vfio" ->
           StagedActions(<<"WriteModprobeConf", "CheckVulkanIcd", l.hotplug_add_type,
                           "RescanPci", l.disable_nvidia_persistenced,
                           l.disable_nvidia_powerd, l.kill_gpu_use, "UnloadGpuDrivers",
                           "UnbindGpu", "LoadVfioDrivers">>)
      [] to = "AsusEgpu" ->
           StagedActions(<<l.wait_logout, l.stop_display, "WriteModprobeConf",
                           "CheckVulkanIcd", "AsusEgpuEnable", "RescanPci",
                           "LoadGpuDrivers", l.enable_nvidia_persistenced,
                           l.enable_nvidia_powerd, l.start_display>>)
      [] to = "AsusMuxDgpu" ->
           StagedActions(<<"WriteModprobeConf", "CheckVulkanIcd", l.hotplug_add_type,
                           l.enable_nvidia_persistenced, l.enable_nvidia_powerd,
                           "AsusMuxDgpu">>)
      [] to \in {"Integrated", "None"} -> UserAction("Nothing")

SwitchFromNvidiaNoModeset(l, to) ==
    CASE to = "Hybrid" -> UserAction("Nothing")
      [] to = "Integrated" ->
           StagedActions(<<"SendDetachEvent", l.disable_nvidia_persistenced,
                           l.disable_nvidia_powerd, l.kill_gpu_use, "UnloadGpuDrivers",
                           "UnbindRemoveGpu", "WriteModprobeConf", "CheckVulkanIcd">>)
      [] to = "Vfio" ->
           StagedActions(<<"SendDetachEvent", l.disable_nvidia_persistenced,
                           l.disable_nvidia_powerd, l.kill_gpu_use, "UnloadGpuDrivers",
                           "WriteModprobeConf", "CheckVulkanIcd", "LoadVfioDrivers">>)
      [] to = "AsusEgpu" -> UserAction("Nothing")
      [] to = "AsusMuxDgpu" ->
           StagedActions(<<l.enable_nvidia_persistenced, l.enable_nvidia_powerd,
                           "AsusMuxDgpu">>)
      [] to \in {"NvidiaNoModeset", "None"} -> UserAction("Nothing")

SwitchFromVfio(l, to) ==
    CASE to \in {"Hybrid", "NvidiaNoModeset"} ->
           StagedActions(<<l.kill_gpu_use, "UnloadVfioDrivers", "WriteModprobeConf",
                           "CheckVulkanIcd", "RescanPci", "LoadGpuDrivers">>)
      [] to = "Integrated" ->
           StagedActions(<<l.kill_gpu_use, "UnloadVfioDrivers", "UnbindRemoveGpu">>)
      [] to = "AsusEgpu" ->
           StagedActions(<<l.wait_logout, l.stop_display, "UnloadVfioDrivers",
                           "UnbindRemoveGpu", "WriteModprobeConf", "CheckVulkanIcd",
                           "AsusEgpuEnable", "RescanPci", "LoadGpuDrivers",
                           l.enable_nvidia_persistenced, l.enable_nvidia_powerd,
                           l.start_display>>)
      [] to = "AsusMuxDgpu" ->
           StagedActions(<<l.enable_nvidia_persistenced, l.enable_nvidia_powerd,
                           "AsusMuxDgpu">>)
      [] to \in {"Vfio", "None"} -> UserAction("Nothing")

\* A plausible slip: the arm for a transition that needs no steps returns an empty list.
SwitchFromAsusEgpuEmptyPlan(l, to) ==
    IF to \in {"AsusEgpu", "NvidiaNoModeset", "None"}
    THEN StagedActions(<< >>)
    ELSE UserAction("SwitchToIntegrated")

SwitchFromAsusEgpu(l, to) ==
    CASE to = "Hybrid" ->
           StagedActions(<<l.wait_logout, l.stop_display, l.disable_nvidia_persistenced,
                           l.disable_nvidia_powerd, l.kill_gpu_use, "UnloadGpuDrivers",
                           "UnbindRemoveGpu", "WriteModprobeConf", "CheckVulkanIcd",
                           "AsusEgpuDisable", "AsusDgpuEnable", "RescanPci",
                           "LoadGpuDrivers", l.enable_nvidia_persistenced,
                           l.enable_nvidia_powerd, l.start_display>>)
      [] to = "Integrated" ->
           StagedActions(<<l.wait_logout, l.stop_display, l.disable_nvidia_persistenced,
                           l.disable_nvidia_powerd, l.kill_gpu_use, "UnloadGpuDrivers",
                           "UnbindRemoveGpu", "WriteModprobeConf", "AsusEgpuDisable",
                           "UnloadGpuDrivers", "UnbindRemoveGpu", "WriteModprobeConf",
                           "CheckVulkanIcd", l.hotplug_rm_type, l.start_display>>)
      [] to = "Vfio" -> UserAction("SwitchToIntegrated")
      [] to = "AsusMuxDgpu" -> UserAction("AsusEgpuDisable")
      [] to \in {"AsusEgpu", "NvidiaNoModeset", "None"} -> UserAction("Nothing")

\* A plausible slip: the target None is treated like the other arms' None.
SwitchFromAsusMuxDgpuNoneIsNothing(l, to) ==
    IF to \in {"AsusMuxDgpu", "None"}
    THEN UserAction("Nothing")
    ELSE StagedActions(<<"AsusMuxIgpu">>)

\* GfxMode::AsusMuxDgpu => match to { AsusMuxDgpu => Nothing, _ => [AsusMuxIgpu] }
SwitchFromAsusMuxDgpu(l, to) ==
    IF to = "AsusMuxDgpu"
    THEN UserAction("Nothing")
    ELSE StagedActions(<<"AsusMuxIgpu">>)

\* A plausible slip: leaving None re-applies the target.
SwitchFromNoneApplies(l, to) ==
    StagedActions(<<"WriteModprobeConf", "CheckVulkanIcd">>)

\* GfxMode::None => Action::UserAction(UserActionRequired::Nothing)
SwitchFromNone(l, to) == UserAction("Nothing")

action_list_for_switch(config, vendor, from, to) ==
    LET l == SwitchLocals(config, vendor) IN
    CASE from = "Hybrid" -> SwitchFromHybrid(l, to)
      [] from = "Integrated" -> SwitchFromIntegrated(l, to)
      [] from = "NvidiaNoModeset" -> SwitchFromNvidiaNoModeset(l, to)
      [] from = "Vfio" -> SwitchFromVfio(l, to)
      [] from = "AsusEgpu" -> SwitchFromAsusEgpu(l, to)
      [] from = "AsusMuxDgpu" -> SwitchFromAsusMuxDgpu(l, to)
      [] from = "None" -> SwitchFromNone(l, to)


(***************************************************************************)
(* StagedAction::action_list_for_boot                                      *)
(***************************************************************************)
\* A plausible slip: the boot planner resolves the kill step as the switch planner does.
kill_gpu_use_boot_as_switch(vendor) ==
    IF vendor = "Nvidia" THEN "KillNvidia"
    ELSE IF vendor = "Amd" THEN "KillAmd"
    ELSE "NotNvidia"

\* kill_gpu_use of the boot planner: KillNvidia for Nvidia, KillAmd otherwise
kill_gpu_use_boot(vendor) == IF vendor = "Nvidia" THEN "KillNvidia" ELSE "KillAmd"

\* A plausible slip: the boot planner keeps the service step for every vendor.
NvidiaOnlyKeepsStep(vendor, step) == step

\* if vendor == GfxVendor::Nvidia { step } else { Self::NotNvidia }
NvidiaOnly(vendor, step) == IF vendor = "Nvidia" THEN step ELSE "NotNvidia"

\* A plausible slip: the boot plan for Vfio stops before the vfio modules are loaded.
BootVfioWithoutLoad(config, vendor) ==
    <<NvidiaOnly(vendor, "DisableNvidiaPersistenced"),
      NvidiaOnly(vendor, "DisableNvidiaPowerd"),
      kill_gpu_use_boot(vendor), "UnloadGpuDrivers", "WriteModprobeConf",
      "CheckVulkanIcd">>

\* A plausible slip: the boot plan for Vfio unloads the drivers before their users
\* are killed.
BootVfioUnloadBeforeKill(config, vendor) ==
    <<NvidiaOnly(vendor, "DisableNvidiaPersistenced"),
      NvidiaOnly(vendor, "DisableNvidiaPowerd"),
      "UnloadGpuDrivers", kill_gpu_use_boot(vendor), "WriteModprobeConf",
      "CheckVulkanIcd", "LoadVfioDrivers">>

\* A plausible slip: the boot plan for Vfio waits for the logout as a switch does.
BootVfioWaitsLogout(config, vendor) ==
    <<wait_logout_step(config), NvidiaOnly(vendor, "DisableNvidiaPersistenced"),
      NvidiaOnly(vendor, "DisableNvidiaPowerd"),
      kill_gpu_use_boot(vendor), "UnloadGpuDrivers", "WriteModprobeConf",
      "CheckVulkanIcd", "LoadVfioDrivers">>

\* GfxMode::Vfio arm of action_list_for_boot
BootVfio(config, vendor) ==
    <<NvidiaOnly(vendor, "DisableNvidiaPersistenced"),
      NvidiaOnly(vendor, "DisableNvidiaPowerd"),
      kill_gpu_use_boot(vendor), "UnloadGpuDrivers", "WriteModprobeConf",
      "CheckVulkanIcd", "LoadVfioDrivers">>

action_list_for_boot(config, vendor, mode) ==
    CASE mode = "Hybrid" ->
           <<"WriteModprobeConf", "CheckVulkanIcd", hotplug_add_type(config), "RescanPci",
             "LoadGpuDrivers", NvidiaOnly(vendor, "EnableNvidiaPersistenced"),
             NvidiaOnly(vendor, "EnableNvidiaPowerd")>>
      [] mode \in {"Integrated", "NvidiaNoModeset"} ->
           <<NvidiaOnly(vendor, "DisableNvidiaPersistenced"),
             NvidiaOnly(vendor, "DisableNvidiaPowerd"),
             kill_gpu_use_boot(vendor), "UnloadGpuDrivers", "UnbindRemoveGpu",
             "WriteModprobeConf", "CheckVulkanIcd", hotplug_rm_type(config)>>
      [] mode = "Vfio" -> BootVfio(config, vendor)
      [] mode \in {"AsusEgpu", "AsusMuxDgpu"} ->
           <<"WriteModprobeConf", "CheckVulkanIcd", "LoadGpuDrivers",
             NvidiaOnly(vendor, "EnableNvidiaPersistenced"),
             NvidiaOnly(vendor, "EnableNvidiaPowerd")>>
      [] mode = "None" -> << >>

(***************************************************************************)
(* UserActionRequired::mode_change_action                                  *)
(***************************************************************************)
\* A plausible slip: every change of mode asks for a reboot when the MUX is involved,
\* whatever the target.
mode_change_action_mux_first(new_mode, current_mode) ==
    IF new_mode = current_mode THEN "Nothing"
    ELSE IF "AsusMuxDgpu" \in {new_mode, current_mode} THEN "Reboot"
    ELSE "Logout"

mode_change_action(new_mode, current_mode) ==
    CASE new_mode = "Hybrid" ->
           (CASE current_mode \in {"Integrated", "AsusEgpu"} -> "Logout"
              [] current_mode = "AsusMuxDgpu" -> "Reboot"
              [] current_mode = "Vfio" -> "SwitchToIntegrated"
              [] current_mode \in {"NvidiaNoModeset", "Hybrid", "None"} -> "Nothing")
      [] new_mode = "Integrated" ->
           (CASE current_mode \in {"Hybrid", "AsusEgpu"} -> "Logout"
              [] current_mode = "AsusMuxDgpu" -> "Reboot"
              [] current_mode \in {"Vfio", "NvidiaNoModeset", "Integrated", "None"} -> "Nothing")
      [] new_mode = "NvidiaNoModeset" ->
           (CASE current_mode \in {"Integrated", "NvidiaNoModeset", "Vfio", "Hybrid", "None"} ->
                   "Nothing"
              [] current_mode = "AsusEgpu" -> "Logout"
              [] current_mode = "AsusMuxDgpu" -> "Reboot")
      [] new_mode = "Vfio" ->
           (CASE current_mode \in {"Integrated", "Vfio", "NvidiaNoModeset", "None"} -> "Nothing"
              [] current_mode \in {"AsusEgpu", "Hybrid"} -> "Logout"
              [] current_mode = "AsusMuxDgpu" -> "Reboot")
      [] new_mode = "AsusEgpu" ->
           (CASE current_mode \in {"Integrated", "Hybrid", "NvidiaNoModeset"} -> "Logout"
              [] current_mode = "Vfio" -> "SwitchToIntegrated"
              [] current_mode \in {"AsusEgpu", "None"} -> "Nothing"
              [] current_mode = "AsusMuxDgpu" -> "Reboot")
      [] new_mode = "AsusMuxDgpu" ->
           (CASE current_mode \in {"Hybrid", "Integrated", "NvidiaNoModeset", "Vfio", "AsusEgpu"} ->
                   "Reboot"
              [] current_mode \in {"None", "AsusMuxDgpu"} -> "Nothing")
      [] new_mode = "None" -> "Nothing"

(***************************************************************************)
(* StagedAction::perform: the results one step can return                  *)
(***************************************************************************)
\* DiscreetGpu::unbind / DiscreetGpu::remove: Err(NotSupported) for an Unknown vendor
UnbindResults(vendor) == IF vendor = "Unknown" THEN {"Err"} ELSE {"Ok", "Err"}

\* DiscreetGpu::do_driver_action: only an Nvidia device touches the modules
DriverActionResults(vendor) == IF vendor = "Nvidia" THEN {"Ok", "Err"} ELSE {"Ok"}

\* create_modprobe_conf: returns Ok(()) at once for an AMD or Intel dGPU
ModprobeResults(vendor) == IF vendor \in {"Amd", "Intel"} THEN {"Ok"} ELSE {"Ok", "Err"}

\* A plausible slip: the CheckVulkanIcd arm ends with `?` and hands the error on.
PropagateError(r) == r

\* check_vulkan_icd(changing_to).map_err(|e| warn!(..)).ok(); Ok(())
SwallowError(r) == "Ok"

\* check_vulkan_icd: a rename may fail
VulkanIcdResults == {"Ok", "Err"}

perform(step, vendor) ==
    CASE step \in {"KillAmd", "DevTreeManaged", "NoLogind", "NotNvidia", "None"} -> {"Ok"}
      [] step = "CheckVulkanIcd" -> {SwallowError(r) : r \in VulkanIcdResults}
      [] step \in {"LoadGpuDrivers", "UnloadGpuDrivers"} -> DriverActionResults(vendor)
      [] step \in {"UnbindRemoveGpu", "UnbindGpu"} -> UnbindResults(vendor)
      [] step = "WriteModprobeConf" -> ModprobeResults(vendor)
      [] OTHER -> {"Ok", "Err"}

(***************************************************************************)
(* GfxConfig (config.rs)                                                   *)
(***************************************************************************)
Nil == "Nil"   \* Option::None

\* GfxConfig::new, with the fields the configuration file may override
NewConfig(mode, vfio_enable, always_reboot, no_logind, hotplug_type) ==
    [config_path |-> "supergfxd.conf", mode |-> mode, tmp_mode |-> Nil,
     pending_mode |-> Nil, pending_action |-> Nil, vfio_enable |-> vfio_enable,
     vfio_save |-> FALSE, always_reboot |-> always_reboot, no_logind |-> no_logind,
     logout_timeout_s |-> 180, hotplug_type |-> hotplug_type]

\* A plausible slip: #[serde(skip)] put on `mode`, which then reads back as its default.
SerializeSkipsMode(c) ==
    [mode |-> "None", vfio_enable |-> c.vfio_enable, vfio_save |-> c.vfio_save,
     always_reboot |-> c.always_reboot, no_logind |-> c.no_logind,
     logout_timeout_s |-> c.logout_timeout_s, hotplug_type |-> c.hotplug_type]

\* GfxConfig::write: the JSON document holds every field that is not #[serde(skip)]
Serialize(c) ==
    [mode |-> c.mode, vfio_enable |-> c.vfio_enable, vfio_save |-> c.vfio_save,
     always_reboot |-> c.always_reboot, no_logind |-> c.no_logind,
     logout_timeout_s |-> c.logout_timeout_s, hotplug_type |-> c.hotplug_type]

\* impl From<&GfxConfig> for GfxConfigDbus
GfxConfigDbusFrom(c) ==
    [mode |-> c.mode, vfio_enable |-> c.vfio_enable, vfio_save |-> c.vfio_save,
     always_reboot |-> c.always_reboot, no_logind |-> c.no_logind,
     logout_timeout_s |-> c.logout_timeout_s, hotplug_type |-> c.hotplug_type]

(***************************************************************************)
(* Bounds of the model                                                     *)
(***************************************************************************)
\* D-Bus callers that may have a request outstanding at the same time
NumClients == 2

\* set_config calls in one run
MaxSetConfig == 1

Clients == 1..NumClients

NoClient == 0

\* The GfxConfigDbus values callers send. vfio_save and logout_timeout_s, which the
\* engine never reads, vary together with vfio_enable and no_logind.
ConfigViews ==
    {[mode |-> m, vfio_enable |-> ve, vfio_save |-> ve, always_reboot |-> ar,
      no_logind |-> nl, logout_timeout_s |-> IF nl THEN 0 ELSE 180, hotplug_type |-> h] :
        m \in GfxMode, ve \in BOOLEAN, ar \in BOOLEAN, nl \in BOOLEAN, h \in HotplugType}

\* The dGPU vendors and hotplug types the engine runs start from: one vendor for each
\* way perform depends on it (module actions, modprobe file, unbind).
EngineVendors == {"Nvidia", "Amd", "Unknown"}

EngineHotplug == {"Std", "None"}

(***************************************************************************)
(* State                                                                   *)
(***************************************************************************)
VARIABLES
    config,     \* CtrlGraphics.config: the GfxConfig in memory
    file,       \* the persisted configuration document
    vendor,     \* CtrlGraphics.dgpu.vendor
    iface,      \* the caller holding the interface (&mut self), or NoClient
    pc,         \* per caller: "idle", "queued", "executing", "returning"
    via,        \* per caller: the D-Bus method it called
    req,        \* per caller: [from, to] of the switch its set_mode asked for
    plan,       \* per caller: the steps of its accepted plan
    done,       \* per caller: the steps performed so far, each with its result
    res,        \* per caller: what set_gfx_mode returned
    nset,       \* set_config calls made so far
    sig,        \* per caller: the signals its call has emitted
    call,       \* planner check: the arguments of one planner call
    ret,        \* planner check: what the planner returned
    loop_exit,  \* the Arc<AtomicBool> shared by the controller and wait_logout
    sessions,   \* wait_logout: the sessions the last list_sessions() returned
    elapsed,    \* wait_logout: Instant::now().duration_since(start_time).as_secs()
    gate_pc,    \* wait_logout: the position of the WaitLogout step
    gate_ret,   \* wait_logout: what it returned
    cancelled,  \* the controller has stored true into loop_exit
    phase,      \* plan runs: "off", "running", "idle" (plan completed), "failed"
    plan_kind,  \* plan runs: "boot" or "switch"
    cur_mode,   \* plan runs: the mode of the last completed plan
    from_mode,  \* plan runs: the mode the running or last plan started from
    changing_to, \* plan runs: perform's changing_to of the running or last plan
    steps,      \* plan runs: the running or last plan
    ip,         \* plan runs: the number of its steps performed
    last,       \* plan runs: the step performed last, what its callee and it returned
    modprobe,   \* the content of the modprobe configuration file
    modprobe0,  \* its content when the running or last plan started
    icd,        \* the name under which the Nvidia Vulkan ICD file exists
    icd0,       \* that name when the running or last plan started
    icd_err,    \* check_vulkan_icd returned an error in the running or last plan
    hotplug_state \* the dGPU slot as the last hotplug or ASUS dgpu step left it

gateVars == <<loop_exit, sessions, elapsed, gate_pc, gate_ret, cancelled>>

execVars ==
    <<phase, plan_kind, cur_mode, from_mode, changing_to, steps, ip, last, modprobe,
      modprobe0, icd, icd0, icd_err, hotplug_state>>

vars ==
    <<config, file, vendor, iface, pc, via, req, plan, done, res, nset, sig, call, ret,
      gateVars, execVars>>

engineVars == <<config, file, vendor, iface, pc, via, req, plan, done, res, nset, sig>>

NoReq == [from |-> "None", to |-> "None"]

NoRes == [kind |-> "NoRes"]

Ok(u) == [kind |-> "Ok", action |-> u]

Err(e) == [kind |-> "Err", error |-> e]

NoCall == [fn |-> "none"]

Pending == [kind |-> "Pending"]

\* The modprobe file before it was ever created
NoFile == <<"(no file)">>

NoStep == [step |-> "None", inner |-> "Ok", result |-> "Ok"]

\* No plan run is being followed.
ExecUnused ==
    /\ phase = "unused"
    /\ plan_kind = "boot"
    /\ cur_mode = "None"
    /\ from_mode = "None"
    /\ changing_to = "None"
    /\ steps = << >>
    /\ ip = 0
    /\ last = NoStep
    /\ modprobe = NoFile
    /\ modprobe0 = NoFile
    /\ icd = "absent"
    /\ icd0 = "absent"
    /\ icd_err = FALSE
    /\ hotplug_state = "On"

\* The WaitLogout step is not running.
GateUnused ==
    /\ loop_exit = FALSE
    /\ sessions = << >>
    /\ elapsed = 0
    /\ gate_pc = "idle"
    /\ gate_ret = Pending
    /\ cancelled = FALSE

(***************************************************************************)
(* The planner applied to one input (PlanSpec)                             *)
(***************************************************************************)
PlanInit ==
    /\ config = NewConfig("Hybrid", FALSE, FALSE, FALSE, "None")
    /\ file = Serialize(config)
    /\ vendor = "Unknown"
    /\ iface = NoClient
    /\ pc = [c \in Clients |-> "idle"]
    /\ via = [c \in Clients |-> "none"]
    /\ req = [c \in Clients |-> NoReq]
    /\ plan = [c \in Clients |-> << >>]
    /\ done = [c \in Clients |-> << >>]
    /\ res = [c \in Clients |-> NoRes]
    /\ nset = 0
    /\ sig = [c \in Clients |-> << >>]
    /\ \E fn \in {"switch", "boot", "action"}, from \in GfxMode, to \in GfxMode, v \in GfxVendor,
          ve \in BOOLEAN, ar \in BOOLEAN, nl \in BOOLEAN, h \in HotplugType :
          /\ fn = "boot" => from = to
          /\ call = [fn |-> fn, config |-> NewConfig(from, ve, ar, nl, h), vendor |-> v,
                     from |-> from, to |-> to]
    /\ ret = Pending
    /\ GateUnused
    /\ ExecUnused

ApplySwitch ==
    /\ call.fn = "switch"
    /\ ret = Pending
    /\ ret' = action_list_for_switch(call.config, call.vendor, call.from, call.to)
    /\ UNCHANGED <<engineVars, call, gateVars, execVars>>

ApplyBoot ==
    /\ call.fn = "boot"
    /\ ret = Pending
    /\ ret' = [kind |-> "BootPlan",
               steps |-> action_list_for_boot(call.config, call.vendor, call.to)]
    /\ UNCHANGED <<engineVars, call, gateVars, execVars>>

\* UserActionRequired::mode_change_action(new_mode = to, current_mode = from)
ApplyModeChangeAction ==
    /\ call.fn = "action"
    /\ ret = Pending
    /\ ret' = [kind |-> "Required", action |-> mode_change_action(call.to, call.from)]
    /\ UNCHANGED <<engineVars, call, gateVars, execVars>>

PlanNext == ApplySwitch \/ ApplyBoot \/ ApplyModeChangeAction

PlanSpec == PlanInit /\ [][PlanNext]_vars

(***************************************************************************)
(* The engine: D-Bus callers, set_mode, set_config, the executor (Spec)    *)
(***************************************************************************)
Init ==
    /\ \E m \in GfxMode, h \in EngineHotplug :
          config = NewConfig(m, FALSE, FALSE, FALSE, h)
    /\ file = Serialize(config)
    /\ vendor \in EngineVendors
    /\ iface = NoClient
    /\ pc = [c \in Clients |-> "idle"]
    /\ via = [c \in Clients |-> "none"]
    /\ req = [c \in Clients |-> NoReq]
    /\ plan = [c \in Clients |-> << >>]
    /\ done = [c \in Clients |-> << >>]
    /\ res = [c \in Clients |-> NoRes]
    /\ nset = 0
    /\ sig = [c \in Clients |-> << >>]
    /\ call = NoCall
    /\ ret = Pending
    /\ GateUnused
    /\ ExecUnused

\* A plausible slip: the methods take &self, which callers share.
IfaceShared(c) == TRUE

\* set_mode and set_config take &mut self: the object server runs one such call at a
\* time on the interface.
IfaceExclusive(c) == iface = NoClient

\* A plausible slip: the result of perform is dropped and the loop goes on.
NeverStops(r) == FALSE

\* The executor returns the first error of a step (perform(..).await?).
StopsOnError(r) == r = "Err"

\* The controller's check before planning: Vfio needs vfio_enable.
VfioGateRejects(cfg, mode) == mode = "Vfio" /\ ~cfg.vfio_enable

\* A plausible slip: the `?` after set_gfx_mode is dropped and the completion signal
\* is emitted whatever the result.
SetModeSignalsAlways(r, mode) == <<[signal |-> "notify_gfx", arg |-> mode]>>

\* The rest of set_mode once set_gfx_mode has returned r: an error leaves through `?`;
\* otherwise notify_action(&msg) and notify_gfx(&mode) are emitted.
SetModeSignals(r, mode) ==
    IF r.kind = "Ok"
    THEN <<[signal |-> "notify_action", arg |-> r.action],
           [signal |-> "notify_gfx", arg |-> mode]>>
    ELSE << >>

\* A method call arrives and waits for the interface.
Request(c) ==
    /\ pc[c] = "idle"
    /\ pc' = [pc EXCEPT ![c] = "queued"]
    /\ UNCHANGED <<config, file, vendor, iface, via, req, plan, done, res, nset, sig,
                   call, ret, gateVars, execVars>>

\* set_gfx_mode up to the first step: the gate, the planner, and for an accepted plan
\* the update of config.mode and pending_mode followed by GfxConfig::write. When
\* set_gfx_mode returns at once, set_mode goes on to its signals.
EnterSetGfxMode(c, cfg, mode) ==
    LET from == cfg.mode
        a == action_list_for_switch(cfg, vendor, from, mode)
        accepted == [cfg EXCEPT !.mode = mode, !.pending_mode = mode]
    IN  /\ req' = [req EXCEPT ![c] = [from |-> from, to |-> mode]]
        /\ done' = [done EXCEPT ![c] = << >>]
        /\ IF VfioGateRejects(cfg, mode)
           THEN /\ config' = cfg
                /\ file' = file
                /\ plan' = [plan EXCEPT ![c] = << >>]
                /\ res' = [res EXCEPT ![c] = Err("NotSupported")]
                /\ sig' = [sig EXCEPT ![c] = SetModeSignals(Err("NotSupported"), mode)]
                /\ pc' = [pc EXCEPT ![c] = "returning"]
           ELSE IF a.kind = "UserAction"
           THEN /\ config' = cfg
                /\ file' = file
                /\ plan' = [plan EXCEPT ![c] = << >>]
                /\ res' = [res EXCEPT ![c] = Ok(a.action)]
                /\ sig' = [sig EXCEPT ![c] = SetModeSignals(Ok(a.action), mode)]
                /\ pc' = [pc EXCEPT ![c] = "returning"]
           ELSE /\ config' = accepted
                /\ file' = Serialize(accepted)
                /\ plan' = [plan EXCEPT ![c] = a.steps]
                /\ res' = [res EXCEPT ![c] = NoRes]
                /\ sig' = [sig EXCEPT ![c] = << >>]
                /\ pc' = [pc EXCEPT ![c] = "executing"]

\* CtrlGraphics::set_mode, entered
SetMode(c, mode) ==
    /\ pc[c] = "queued"
    /\ IfaceExclusive(c)
    /\ iface' = c
    /\ via' = [via EXCEPT ![c] = "set_mode"]
    /\ EnterSetGfxMode(c, config, mode)
    /\ UNCHANGED <<vendor, nset, call, ret, gateVars, execVars>>

\* A plausible slip: hotplug_type is copied with the other fields.
set_config_fields_with_hotplug(cfg, view) ==
    [cfg EXCEPT !.vfio_enable = view.vfio_enable,
                !.vfio_save = view.vfio_save,
                !.always_reboot = view.always_reboot,
                !.no_logind = view.no_logind,
                !.logout_timeout_s = view.logout_timeout_s,
                !.hotplug_type = view.hotplug_type]

\* The five assignments of set_config under the lock
set_config_fields(cfg, view) ==
    [cfg EXCEPT !.vfio_enable = view.vfio_enable,
                !.vfio_save = view.vfio_save,
                !.always_reboot = view.always_reboot,
                !.no_logind = view.no_logind,
                !.logout_timeout_s = view.logout_timeout_s]

\* CtrlGraphics::set_config: do_mode_change = (cfg.mode == config.mode), mode = cfg.mode,
\* five fields copied, then self.set_mode(ctxt, mode) if do_mode_change
SetConfig(c, view) ==
    /\ pc[c] = "queued"
    /\ IfaceExclusive(c)
    /\ nset < MaxSetConfig
    /\ iface' = c
    /\ via' = [via EXCEPT ![c] = "set_config"]
    /\ nset' = nset + 1
    /\ LET do_mode_change == config.mode = view.mode
           mode == config.mode
           cfg == set_config_fields(config, view)
       IN  IF do_mode_change
           THEN EnterSetGfxMode(c, cfg, mode)
           ELSE /\ config' = cfg
                /\ pc' = [pc EXCEPT ![c] = "returning"]
                /\ req' = [req EXCEPT ![c] = NoReq]
                /\ plan' = [plan EXCEPT ![c] = << >>]
                /\ done' = [done EXCEPT ![c] = << >>]
                /\ res' = [res EXCEPT ![c] = NoRes]
                /\ sig' = [sig EXCEPT ![c] = << >>]
                /\ UNCHANGED file
    /\ UNCHANGED <<vendor, call, ret, gateVars, execVars>>

\* The executor performs the next step of the plan; when that ends set_gfx_mode,
\* set_mode goes on to its signals.
PerformStep(c) ==
    /\ pc[c] = "executing"
    /\ LET i == Len(done[c]) + 1
           step == plan[c][i]
       IN  \E r \in perform(step, vendor) :
              /\ done' = [done EXCEPT ![c] = Append(@, [step |-> step, result |-> r])]
              /\ IF StopsOnError(r)
                 THEN /\ res' = [res EXCEPT ![c] = Err(step)]
                      /\ sig' = [sig EXCEPT ![c] = SetModeSignals(Err(step), req[c].to)]
                      /\ pc' = [pc EXCEPT ![c] = "returning"]
                 ELSE IF i = Len(plan[c])
                 THEN LET msg == Ok(mode_change_action(req[c].to, req[c].from))
                      IN  /\ res' = [res EXCEPT ![c] = msg]
                          /\ sig' = [sig EXCEPT ![c] = SetModeSignals(msg, req[c].to)]
                          /\ pc' = [pc EXCEPT ![c] = "returning"]
                 ELSE UNCHANGED <<res, sig, pc>>
    /\ UNCHANGED <<config, file, vendor, iface, via, req, plan, nset, call, ret, gateVars, execVars>>

\* The method replies to its caller and gives up the interface.
Return(c) ==
    /\ pc[c] = "returning"
    /\ iface' = NoClient
    /\ pc' = [pc EXCEPT ![c] = "idle"]
    /\ via' = [via EXCEPT ![c] = "none"]
    /\ req' = [req EXCEPT ![c] = NoReq]
    /\ plan' = [plan EXCEPT ![c] = << >>]
    /\ done' = [done EXCEPT ![c] = << >>]
    /\ res' = [res EXCEPT ![c] = NoRes]
    /\ sig' = [sig EXCEPT ![c] = << >>]
    /\ UNCHANGED <<config, file, vendor, nset, call, ret, gateVars, execVars>>

Next ==
    \E c \in Clients :
        \/ Request(c)
        \/ \E mode \in GfxMode : SetMode(c, mode)
        \/ \E view \in ConfigViews : SetConfig(c, view)
        \/ PerformStep(c)
        \/ Return(c)

Spec == Init /\ [][Next]_vars

(***************************************************************************)
(* The session gate: wait_logout and graphical_user_sessions_exist         *)
(* (GateSpec)                                                              *)
(***************************************************************************)
\* Sessions one list_sessions() call may return
MaxSessions == 2

SessionClass == {"User", "Greeter"}

SessionType == {"X11", "Wayland", "MIR", "TTY"}

SessionState == {"Online", "Active", "Closing"}

\* A listed session whose proxy cannot be built or whose properties cannot be read
\* (the session went away after it was listed).
GoneSession == [class |-> "Error", type |-> "Error", state |-> "Error"]

SessionInfos ==
    [class : SessionClass, type : SessionType, state : SessionState] \cup {GoneSession}

SessionLists == UNION {[1..n -> SessionInfos] : n \in 0..MaxSessions}

\* The values of logout_timeout_s in the configuration: infinite, short, the default
GateTimeouts == {0, 20, 180}

\* Seconds that pass during one sleep of the loop, as as_secs() sees them: the same
\* second, or a later one
Delays == {0, 16}

\* let logout_timeout_s = 30;
wait_logout_timeout_s == 30

\* A plausible slip: a Closing session still counts.
session_counts_closing(s) ==
    /\ s.class = "User"
    /\ s.type \in {"X11", "Wayland", "MIR"}
    /\ s.state \in {"Online", "Active", "Closing"}

\* The nested tests of graphical_user_sessions_exist on one session: each property
\* read must succeed, class == User, type X11 | Wayland | MIR, state Online | Active.
session_counts(s) ==
    /\ s.class # "Error" /\ s.class = "User"
    /\ s.type # "Error" /\ s.type \in {"X11", "Wayland", "MIR"}
    /\ s.state # "Error" /\ s.state \in {"Online", "Active"}

\* for session in sessions { ... return Ok(true) } Ok(false)
graphical_user_sessions_exist(list) ==
    \E i \in 1..Len(list) : session_counts(list[i])

GateInit ==
    /\ \E t \in GateTimeouts :
          config = [NewConfig("Hybrid", FALSE, FALSE, FALSE, "None")
                       EXCEPT !.logout_timeout_s = t]
    /\ file = Serialize(config)
    /\ vendor = "Nvidia"
    /\ iface = NoClient
    /\ pc = [c \in Clients |-> "idle"]
    /\ via = [c \in Clients |-> "none"]
    /\ req = [c \in Clients |-> NoReq]
    /\ plan = [c \in Clients |-> << >>]
    /\ done = [c \in Clients |-> << >>]
    /\ res = [c \in Clients |-> NoRes]
    /\ nset = 0
    /\ sig = [c \in Clients |-> << >>]
    /\ call = NoCall
    /\ ret = Pending
    /\ loop_exit = FALSE
    /\ sessions = << >>
    /\ elapsed = 0
    /\ gate_pc = "entry"
    /\ gate_ret = Pending
    /\ cancelled = FALSE
    /\ ExecUnused

planVars == <<call, ret>>

\* The controller stores true into the flag (shutdown), once, at any moment before
\* the WaitLogout step has returned.
Cancel ==
    /\ gate_pc \notin {"idle", "returned"}
    /\ ~cancelled
    /\ loop_exit' = TRUE
    /\ cancelled' = TRUE
    /\ UNCHANGED <<engineVars, planVars, execVars, sessions, elapsed, gate_pc, gate_ret>>

\* loop_exit.store(false, Ordering::Release); start_time = Instant::now()
GateStore ==
    /\ gate_pc = "entry"
    /\ loop_exit' = FALSE
    /\ gate_pc' = "connect"
    /\ UNCHANGED <<engineVars, planVars, execVars, sessions, elapsed, gate_ret, cancelled>>

\* Connection::system().await? and ManagerProxy::new(&connection).await?
GateConnect ==
    /\ gate_pc = "connect"
    /\ \/ gate_pc' = "check" /\ UNCHANGED gate_ret
       \/ gate_pc' = "returned" /\ gate_ret' = Err("Zbus")
    /\ UNCHANGED <<engineVars, planVars, execVars, loop_exit, sessions, elapsed, cancelled>>

\* while !loop_exit.load(Ordering::Acquire)
GateCheckFlag ==
    /\ gate_pc = "check"
    /\ gate_pc' = IF loop_exit THEN "flag_exit" ELSE "list"
    /\ UNCHANGED <<engineVars, planVars, execVars, loop_exit, sessions, elapsed, gate_ret, cancelled>>

\* let sessions = manager.list_sessions().await?
GateListSessions ==
    /\ gate_pc = "list"
    /\ \/ \E l \in SessionLists :
             /\ sessions' = l
             /\ gate_pc' = "listed"
             /\ UNCHANGED gate_ret
       \/ /\ gate_pc' = "returned"
          /\ gate_ret' = Err("Zbus")
          /\ UNCHANGED sessions
    /\ UNCHANGED <<engineVars, planVars, execVars, loop_exit, elapsed, cancelled>>

\* if !graphical_user_sessions_exist(&connection, &sessions).await? { break; }
GateEvaluate ==
    /\ gate_pc = "listed"
    /\ gate_pc' = IF graphical_user_sessions_exist(sessions) THEN "timeout" ELSE "broke"
    /\ sessions' = << >>
    /\ UNCHANGED <<engineVars, planVars, execVars, loop_exit, elapsed, gate_ret, cancelled>>

\* A plausible slip: the timeout leaves the loop with break, like the poll that finds
\* no session.
GateTimeoutBreaks ==
    /\ gate_pc = "timeout"
    /\ gate_pc' = IF wait_logout_timeout_s # 0 /\ elapsed > wait_logout_timeout_s
                  THEN "broke"
                  ELSE "sleep"
    /\ UNCHANGED <<engineVars, planVars, execVars, loop_exit, sessions, elapsed, gate_ret,
                   cancelled>>

\* if logout_timeout_s != 0 && ...as_secs() > logout_timeout_s { return Err(..) }
GateTimeoutCheck ==
    /\ gate_pc = "timeout"
    /\ IF wait_logout_timeout_s # 0 /\ elapsed > wait_logout_timeout_s
       THEN /\ gate_pc' = "returned"
            /\ gate_ret' = Err("SystemdUnitWaitTimeout")
       ELSE /\ gate_pc' = "sleep"
            /\ UNCHANGED gate_ret
    /\ UNCHANGED <<engineVars, planVars, execVars, loop_exit, sessions, elapsed, cancelled>>

\* sleep(SLEEP_PERIOD).await
GateSleep ==
    /\ gate_pc = "sleep"
    /\ \E d \in Delays : elapsed' = elapsed + d
    /\ gate_pc' = "check"
    /\ UNCHANGED <<engineVars, planVars, execVars, loop_exit, sessions, gate_ret, cancelled>>

\* After the loop: loop_exit.store(false, Ordering::Release); Ok(())
GateFinish ==
    /\ gate_pc \in {"broke", "flag_exit"}
    /\ loop_exit' = FALSE
    /\ gate_pc' = "returned"
    /\ gate_ret' = [kind |-> "Ok", action |-> gate_pc]
    /\ UNCHANGED <<engineVars, planVars, execVars, sessions, elapsed, cancelled>>

GateNext ==
    \/ Cancel
    \/ GateStore
    \/ GateConnect
    \/ GateCheckFlag
    \/ GateListSessions
    \/ GateEvaluate
    \/ GateTimeoutCheck
    \/ GateSleep
    \/ GateFinish

GateSpec == GateInit /\ [][GateNext]_vars

(***************************************************************************)
(* Plans run one after the other on the modprobe file and the Vulkan ICD   *)
(* file: create_modprobe_conf, check_vulkan_icd (ExecSpec)                 *)
(***************************************************************************)
\* The devices of a DiscreetGpu, as far as the files depend on them: pci_id of each
\* function, in set order.
PciIds == {"10DE:2520", "10DE:228E"}

\* The loop of create_vfio_conf from function i on: the pci_id, and a comma unless the
\* function is the last one.
RECURSIVE VfioIds(_, _)
VfioIds(devices, i) ==
    IF i > Len(devices) THEN << >>
    ELSE <<devices[i]>> \o (IF i - 1 < Len(devices) - 1 THEN <<",">> ELSE << >>)
            \o VfioIds(devices, i + 1)

\* A plausible slip: the comma after the loop is left out.
create_vfio_conf_no_trailing_comma(devices) ==
    <<"MODPROBE_INTEGRATED", "MODPROBE_VFIO">> \o VfioIds(devices, 1)

\* create_vfio_conf: MODPROBE_INTEGRATED, then MODPROBE_VFIO with the ids and one more
\* comma after the loop.
create_vfio_conf(devices) ==
    <<"MODPROBE_INTEGRATED", "MODPROBE_VFIO">> \o VfioIds(devices, 1) \o <<",">>

\* A plausible slip: the Vfio content is written for Integrated as well.
ModprobeContentVfioForIntegrated(m, devices) ==
    CASE m \in {"Hybrid", "AsusEgpu", "NvidiaNoModeset"} ->
           <<"MODPROBE_NVIDIA_BASE", "MODPROBE_NVIDIA_DRM_MODESET_OFF",
             "MODPROBE_NVIDIA_EC_BKLT">>
      [] m \in {"Vfio", "Integrated"} -> create_vfio_conf(devices)
      [] m \in {"None", "AsusMuxDgpu"} -> << >>

\* let content = match mode { .. } of create_modprobe_conf: the byte strings appended,
\* each named by its constant
ModprobeContent(m, devices) ==
    CASE m \in {"Hybrid", "AsusEgpu", "NvidiaNoModeset"} ->
           <<"MODPROBE_NVIDIA_BASE", "MODPROBE_NVIDIA_DRM_MODESET_OFF",
             "MODPROBE_NVIDIA_EC_BKLT">>
      [] m = "Vfio" -> create_vfio_conf(devices)
      [] m = "Integrated" ->
           <<"MODPROBE_INTEGRATED", "MODPROBE_NVIDIA_DRM_MODESET_OFF",
             "MODPROBE_NVIDIA_EC_BKLT">>
      [] m \in {"None", "AsusMuxDgpu"} -> << >>

\* A plausible slip: the early return is taken for every vendor but Nvidia.
create_modprobe_conf_nvidia_only(m, v, devices, content) ==
    IF v # "Nvidia"
    THEN {[content |-> content, result |-> "Ok"]}
    ELSE {[content |-> ModprobeContent(m, devices), result |-> "Ok"],
          [content |-> content, result |-> "Err"],
          [content |-> << >>, result |-> "Err"]}

\* create_modprobe_conf(mode, device) on a file holding `content`: nothing is done for
\* an AMD or Intel dGPU; otherwise the file is opened with truncate and written. An
\* error of open leaves the file, an error of write_all/sync_all leaves it truncated.
create_modprobe_conf(m, v, devices, content) ==
    IF v \in {"Amd", "Intel"}
    THEN {[content |-> content, result |-> "Ok"]}
    ELSE {[content |-> ModprobeContent(m, devices), result |-> "Ok"],
          [content |-> content, result |-> "Err"],
          [content |-> << >>, result |-> "Err"]}

\* A plausible slip: the ICD is switched off for Vfio only.
IcdOffModesVfioOnly == {"Vfio"}

\* if mode == GfxMode::Vfio || mode == GfxMode::Integrated
IcdOffModes == {"Vfio", "Integrated"}

\* A plausible slip: whichever file exists is renamed to the other name.
check_vulkan_icd_toggle(m, name) ==
    CASE name \in {"active", "both"} ->
           {[icd |-> "inactive", result |-> "Ok"], [icd |-> name, result |-> "Err"]}
      [] name = "inactive" ->
           {[icd |-> "active", result |-> "Ok"], [icd |-> name, result |-> "Err"]}
      [] OTHER -> {[icd |-> name, result |-> "Ok"]}

\* check_vulkan_icd(mode), `name` telling which of the two files exist: "active" (the
\* ICD file alone), "inactive" (the _inactive file alone), "both" or "absent". The
\* rename towards the mode's name replaces a file of that name and may fail.
check_vulkan_icd(m, name) ==
    IF m \in IcdOffModes
    THEN IF name \in {"active", "both"}
         THEN {[icd |-> "inactive", result |-> "Ok"], [icd |-> name, result |-> "Err"]}
         ELSE {[icd |-> name, result |-> "Ok"]}
    ELSE IF name \in {"inactive", "both"}
         THEN {[icd |-> "active", result |-> "Ok"], [icd |-> name, result |-> "Err"]}
         ELSE {[icd |-> name, result |-> "Ok"]}

\* The dGPU vendors of the plan runs: one that writes the modprobe file, one that
\* does not
ExecVendors == {"Nvidia", "Amd"}

\* The dGPU of the plan runs: a VGA function and its audio function
ExecDevices == <<"10DE:2520", "10DE:228E">>

\* The hotplug types with a removal step
ExecHotplug == {"Std", "Asus"}

ExecInit ==
    /\ \E m \in GfxMode, h \in ExecHotplug : config = NewConfig(m, TRUE, FALSE, FALSE, h)
    /\ file = Serialize(config)
    /\ vendor \in ExecVendors
    /\ iface = NoClient
    /\ pc = [c \in Clients |-> "idle"]
    /\ via = [c \in Clients |-> "none"]
    /\ req = [c \in Clients |-> NoReq]
    /\ plan = [c \in Clients |-> << >>]
    /\ done = [c \in Clients |-> << >>]
    /\ res = [c \in Clients |-> NoRes]
    /\ nset = 0
    /\ sig = [c \in Clients |-> << >>]
    /\ call = NoCall
    /\ ret = Pending
    /\ GateUnused
    /\ phase = "off"
    /\ plan_kind = "boot"
    /\ cur_mode = config.mode
    /\ from_mode = config.mode
    /\ changing_to = config.mode
    /\ steps = << >>
    /\ ip = 0
    /\ last = NoStep
    /\ modprobe \in {ModprobeContent(m, ExecDevices) : m \in GfxMode} \cup {NoFile}
    /\ modprobe0 = modprobe
    /\ icd \in {"active", "inactive", "absent"}
    /\ icd0 = icd
    /\ icd_err = FALSE
    /\ hotplug_state = "On"

\* A plan starts: the files as they are now are remembered.
StartPlan(kind, from, to, list) ==
    /\ plan_kind' = kind
    /\ from_mode' = from
    /\ changing_to' = to
    /\ steps' = list
    /\ ip' = 0
    /\ last' = NoStep
    /\ modprobe0' = modprobe
    /\ icd0' = icd
    /\ icd_err' = FALSE
    /\ phase' = IF list = << >> THEN "idle" ELSE "running"
    /\ cur_mode' = IF list = << >> THEN to ELSE cur_mode
    /\ UNCHANGED <<modprobe, icd, hotplug_state>>

\* The daemon starts and runs the boot plan of the persisted mode. (The plan runs
\* follow the two files; the mode reached is kept in cur_mode.)
StartBoot ==
    /\ phase = "off"
    /\ StartPlan("boot", cur_mode, cur_mode, action_list_for_boot(config, vendor, cur_mode))
    /\ UNCHANGED <<engineVars, planVars, gateVars>>

\* A switch for which the planner returns staged steps starts.
StartSwitch(to) ==
    /\ phase = "idle"
    /\ LET a == action_list_for_switch(config, vendor, cur_mode, to)
       IN  /\ a.kind = "StagedActions"
           /\ StartPlan("switch", cur_mode, to, a.steps)
    /\ UNCHANGED <<engineVars, planVars, gateVars>>

\* What one step does to the two files and what perform returns for it.
StepOutcomes(step) ==
    CASE step = "CheckVulkanIcd" ->
           {[modprobe |-> modprobe, icd |-> o.icd, inner |-> o.result,
             result |-> SwallowError(o.result)] : o \in check_vulkan_icd(changing_to, icd)}
      [] step = "WriteModprobeConf" ->
           {[modprobe |-> o.content, icd |-> icd, inner |-> o.result,
             result |-> o.result] : o \in create_modprobe_conf(changing_to, vendor, ExecDevices, modprobe)}
      [] OTHER ->
           {[modprobe |-> modprobe, icd |-> icd, inner |-> r, result |-> r] :
               r \in perform(step, vendor)}

\* device.set_hotplug(HotplugState::Off | On) writes the slot power file and
\* asus_dgpu_set_disabled(true | false) the dgpu_disable attribute: a removal is
\* undone only by the step that writes the same file. (The configuration of a run
\* has one hotplug_type, so one kind of removal step: one variable follows both.)
hotplug_after(step, result, state) ==
    CASE result = "Ok" /\ step = "HotplugUnplug" -> "Off"
      [] result = "Ok" /\ step = "AsusDgpuDisable" -> "Disabled"
      [] result = "Ok" /\ step = "HotplugPlug" /\ state = "Off" -> "On"
      [] result = "Ok" /\ step = "AsusDgpuEnable" /\ state = "Disabled" -> "On"
      [] OTHER -> state

\* The next step of the running plan is performed; an error ends the run.
ExecStep ==
    /\ phase = "running"
    /\ LET step == steps[ip + 1]
       IN  \E o \in StepOutcomes(step) :
              /\ modprobe' = o.modprobe
              /\ icd' = o.icd
              /\ icd_err' = (icd_err \/ (step = "CheckVulkanIcd" /\ o.inner = "Err"))
              /\ last' = [step |-> step, inner |-> o.inner, result |-> o.result]
              /\ hotplug_state' = hotplug_after(step, o.result, hotplug_state)
              /\ ip' = ip + 1
              /\ phase' = IF StopsOnError(o.result) THEN "failed"
                          ELSE IF ip + 1 = Len(steps) THEN "idle" ELSE "running"
              /\ cur_mode' = IF ~StopsOnError(o.result) /\ ip + 1 = Len(steps)
                             THEN changing_to ELSE cur_mode
    /\ UNCHANGED <<engineVars, planVars, gateVars, plan_kind, from_mode, changing_to,
                   steps, modprobe0, icd0>>

ExecNext ==
    \/ StartBoot
    \/ \E to \in GfxMode : StartSwitch(to)
    \/ ExecStep

ExecSpec == ExecInit /\ [][ExecNext]_vars

\* The executor's loop performs the steps of a plan one after the other without
\* waiting for anything outside the step: a plan that is running takes its next step.
ExecFairSpec == ExecSpec /\ WF_vars(ExecStep)

(***************************************************************************)
(* The device registry and the driver primitives (pci_device.rs), the      *)
(* files of config.rs: each operation applied to one input (OpSpec)        *)
(***************************************************************************)
\* The most functions a DiscreetGpu holds
MaxDevices == 2

\* The most PCI devices one enumeration of the bus yields
MaxScan == 2

\* A plausible slip: the devices are walked first to last.
ForwardOrder(n) == [k \in 1..n |-> k]

\* self.devices.iter().rev(): the positions of n devices, last first
RevOrder(n) == [k \in 1..n |-> n + 1 - k]

\* `for x in order { if let .. exists { write(x)?; } }` from position k on: the writes
\* attempted and the result, for every write that can fail. Nothing is written for
\* the items of `skip`.
RECURSIVE Attempts(_, _, _)
Attempts(order, k, skip) ==
    IF k > Len(order) THEN {[log |-> << >>, result |-> "Ok"]}
    ELSE IF order[k] \in skip THEN Attempts(order, k + 1, skip)
    ELSE {[log |-> <<order[k]>>, result |-> "Err"]}
            \cup {[log |-> <<order[k]>> \o r.log, result |-> r.result] :
                     r \in Attempts(order, k + 1, skip)}

\* The writes of one loop, each with the sysfs node written
OnNode(r, node) ==
    [log |-> [k \in 1..Len(r.log) |-> [node |-> node, dev |-> r.log[k]]],
     result |-> r.result]

\* DiscreetGpu::unbind: Device::unbind on every device, last first; a device whose
\* driver link does not exist is passed over. Unknown vendor: NotSupported.
unbind(v, devices) ==
    IF v # "Unknown"
    THEN {OnNode(r, "unbind") :
             r \in Attempts(RevOrder(Len(devices)), 1,
                            {i \in 1..Len(devices) : ~devices[i].driver})}
    ELSE {[log |-> << >>, result |-> "Err"]}

\* DiscreetGpu::remove: Device::remove on every device, last first; a device whose
\* path does not exist is passed over. Unknown vendor: NotSupported.
remove(v, devices) ==
    IF v # "Unknown"
    THEN {OnNode(r, "remove") :
             r \in Attempts(RevOrder(Len(devices)), 1,
                            {i \in 1..Len(devices) : ~devices[i].present})}
    ELSE {[log |-> << >>, result |-> "Err"]}

\* DiscreetGpu::unbind_remove: self.unbind()?; self.remove()
unbind_remove(v, devices) ==
    UNION {IF u.result = "Err" THEN {u}
           ELSE {[log |-> u.log \o r.log, result |-> r.result] : r \in remove(v, devices)} :
              u \in unbind(v, devices)}

\* NVIDIA_DRIVERS
NVIDIA_DRIVERS == <<"nvidia_drm", "nvidia_modeset", "nvidia_uvm", "nvidia">>

DriverAction == {"Load", "Remove"}

\* A plausible slip: the list is walked backwards for Remove.
DriverOrderReversedForRemove(action) ==
    [k \in 1..Len(NVIDIA_DRIVERS) |->
        IF action = "Remove" THEN Len(NVIDIA_DRIVERS) + 1 - k ELSE k]

\* NVIDIA_DRIVERS.iter(), whatever the action
DriverOrder(action) == [k \in 1..Len(NVIDIA_DRIVERS) |-> k]

\* DiscreetGpu::do_driver_action: for an Nvidia dGPU the module command is run on each
\* driver of the list until one fails; for every other vendor nothing is run.
do_driver_action(v, action) ==
    IF v = "Nvidia"
    THEN {[log |-> [k \in 1..Len(r.log) |->
                       [driver |-> NVIDIA_DRIVERS[r.log[k]], action |-> action]],
           result |-> r.result] : r \in Attempts(DriverOrder(action), 1, {})}
    ELSE {[log |-> << >>, result |-> "Ok"]}

\* The vendor part of PCI_ID: Nvidia, AMD, Intel
GpuIds == {"10DE", "1002"}

\* impl From<&str> for GfxVendor
VendorFrom(id) ==
    CASE id = "1002" -> "Amd"
      [] id = "10DE" -> "Nvidia"
      [] id = "8086" -> "Intel"
      [] OTHER -> "Unknown"

\* get_parent of the sysname: the slot, the functions of which are siblings
Slots == {"0000:01:00", "0000:05:00"}

\* PCI_CLASS of a display controller and of an audio device
PciClasses == {"30000", "40300"}

\* class.starts_with("30")
StartsWith30(class) == class \in {"30000", "30200"}

\* hwmon below the device: no directory or no entry, a first entry with in1_input, a
\* first entry without it
HwmonLayouts == {"none", "in1_input", "no_in1_input"}

\* The PCI devices an enumeration can yield: slot, PCI_ID, PCI_CLASS, whether eDP-1 is
\* among the connected displays, the hwmon layout (AMD alone is asked for it)
PciDevices ==
    [slot : Slots, id : {"10DE"}, class : PciClasses, edp : BOOLEAN, hwmon : {"none"}]
    \cup [slot : Slots, id : {"1002"}, class : PciClasses, edp : BOOLEAN,
          hwmon : HwmonLayouts]
    \cup [slot : Slots, id : {"8086"}, class : {"30000"}, edp : {TRUE}, hwmon : {"none"}]

Scans == UNION {[1..n -> PciDevices] : n \in 0..MaxScan}

\* A plausible slip: the class alone decides, the displays are not looked at.
DisplayCheckIgnoresPanel(dev) == StartsWith30(dev.class) /\ dev.id \in GpuIds

\* if !displays.contains("eDP-1") { dgpu = class.starts_with("30") && .. }
DisplayCheck(dev) ==
    IF ~dev.edp THEN StartsWith30(dev.class) /\ dev.id \in GpuIds ELSE FALSE

\* if !dgpu && id.starts_with("1002") { .. dgpu = !hwmon_n.exists() }
HwmonCheck(dev, dgpu) ==
    IF ~dgpu /\ dev.id = "1002" /\ dev.hwmon # "none"
    THEN dev.hwmon = "no_in1_input"
    ELSE dgpu

\* The dgpu flag of Device::find for one device; the value of lscpi_dgpu_check is
\* dropped
Classify(dev) == HwmonCheck(dev, DisplayCheck(dev))

\* The patterns of lscpi_dgpu_check
DgpuPatterns == {"Radeon RX", "AMD/ATI", "GeForce", "Geforce", "Quadro", "T1200"}

\* Model strings of the udev database (ID_MODEL_FROM_DATABASE) and lines of lspci
ModelLabels ==
    {"GA107M [GeForce RTX 3050 Mobile]", "Navi 23 [Radeon RX 6600M]",
     "TU117GLM [T1200 Laptop GPU]", "Rembrandt [Radeon 680M]",
     "VGA compatible controller: Advanced Micro Devices, Inc. [AMD/ATI] Rembrandt"}

\* label.contains(pat) for the labels above
LabelContains(label, pat) ==
    \/ label = "GA107M [GeForce RTX 3050 Mobile]" /\ pat = "GeForce"
    \/ label = "Navi 23 [Radeon RX 6600M]" /\ pat = "Radeon RX"
    \/ label = "TU117GLM [T1200 Laptop GPU]" /\ pat = "T1200"
    \/ label = "VGA compatible controller: Advanced Micro Devices, Inc. [AMD/ATI] Rembrandt"
          /\ pat = "AMD/ATI"

\* lscpi_dgpu_check: for pat in [..] { if label.contains(pat) { return true } } false
lscpi_dgpu_check(label) == \E pat \in DgpuPatterns : LabelContains(label, pat)

\* if !dgpu { lscpi_dgpu_check(&label) ; }: the call is a statement, its value is
\* assigned to nothing and dgpu stays as the checks before left it
LabelCheck(dgpu, label) ==
    [called |-> ~dgpu, value |-> ~dgpu /\ lscpi_dgpu_check(label), dgpu |-> dgpu]

\* A plausible slip: every Nvidia or AMD device is captured.
CapturedAlways(dgpu, parent, slot) == TRUE

\* if dgpu || !parent.is_empty() && sysname.contains(&parent)
Captured(dgpu, parent, slot) == dgpu \/ (parent # "" /\ slot = parent)

\* The `?` of Device::find that can return an error at a device: the first hwmon
\* entry of an AMD device, lspci for a device not found to be the dGPU.
CanFail(dev) ==
    /\ dev.id \in GpuIds
    /\ \/ ~Classify(dev)
       \/ ~DisplayCheck(dev) /\ dev.id = "1002" /\ dev.hwmon # "none"

\* if devices.is_empty() { return Err(GfxError::DgpuNotFound) } Ok(devices)
FindResult(devices) ==
    IF devices = << >>
    THEN [result |-> "Err", error |-> "DgpuNotFound", devices |-> << >>]
    ELSE [result |-> "Ok", error |-> Nil, devices |-> devices]

\* The loop of Device::find from device i of the scan on; `fail` is the device at
\* which a `?` returns an error (0: none).
RECURSIVE FindFrom(_, _, _, _, _)
FindFrom(scan, i, devices, parent, fail) ==
    IF i > Len(scan) THEN FindResult(devices)
    ELSE LET dev == scan[i]
             matched == dev.id \in GpuIds
             dgpu == matched /\ Classify(dev)
             pushed == matched /\ Captured(dgpu, parent, dev.slot)
             devices2 ==
                 IF pushed
                 THEN Append(devices, [name |-> <<dev.slot, i>>, is_dgpu |-> dgpu,
                                       vendor |-> VendorFrom(dev.id), pci_id |-> dev.id])
                 ELSE devices
             parent2 == IF pushed THEN dev.slot ELSE parent
         IN  IF i = fail /\ CanFail(dev)
             THEN [result |-> "Err", error |-> "Io", devices |-> << >>]
             ELSE IF parent2 # "" /\ dev.slot # parent2
                  THEN FindResult(devices2)
                  ELSE FindFrom(scan, i + 1, devices2, parent2, fail)

\* Device::find
find(scan, fail) == FindFrom(scan, 1, << >>, "", fail)

\* Device::find on a bus that shows one device, whose model string is label
find_labelled(dev, label) ==
    LET matched == dev.id \in GpuIds
        check == LabelCheck(matched /\ Classify(dev), label)
        pushed == matched /\ Captured(check.dgpu, "", dev.slot)
    IN  [called |-> matched /\ check.called, value |-> matched /\ check.value,
         found |-> FindResult(IF pushed
                              THEN <<[name |-> <<dev.slot, 1>>, is_dgpu |-> check.dgpu,
                                      vendor |-> VendorFrom(dev.id), pci_id |-> dev.id]>>
                              ELSE << >>)]

\* What the ASUS controls say when Device::find failed
AsusStates == {"none", "dgpu_disabled", "mux_discreet"}

NoGpu == [vendor |-> "Unknown", dgpu_index |-> 0, devices |-> << >>]

\* The last device with is_dgpu, as the loop of DiscreetGpu::new leaves it (0-based)
LastDgpu(devices) ==
    LET D == {i \in 1..Len(devices) : devices[i].is_dgpu}
    IN  IF D = {} THEN 0 ELSE CHOOSE i \in D : \A j \in D : j <= i

\* DiscreetGpu::new: rescan_pci_bus()?, then Device::find; when find fails the set is
\* empty and the vendor comes from the ASUS controls.
DiscreetGpuNew(scan, fail, asus, bus_ok) ==
    IF ~bus_ok THEN [result |-> "Err", gpu |-> NoGpu]
    ELSE LET f == find(scan, fail)
         IN  IF f.result = "Ok"
             THEN LET l == LastDgpu(f.devices)
                  IN  [result |-> "Ok",
                       gpu |-> [vendor |-> IF l = 0 THEN "Unknown" ELSE f.devices[l].vendor,
                                dgpu_index |-> IF l = 0 THEN 0 ELSE l - 1,
                                devices |-> f.devices]]
             ELSE [result |-> "Ok",
                   gpu |-> [vendor |-> CASE asus = "dgpu_disabled" -> "AsusDgpuDisabled"
                                         [] asus = "mux_discreet" -> "Nvidia"
                                         [] OTHER -> "Unknown",
                            dgpu_index |-> 0,
                            devices |-> << >>]]

\* rescan_pci of actions.rs: with no dGPU in the set DiscreetGpu::new replaces the set
\* (its error is logged and dropped), otherwise the bus is rescanned.
rescan_pci(gpu, scan, fail, asus, bus_ok) ==
    IF \A i \in 1..Len(gpu.devices) : ~gpu.devices[i].is_dgpu
    THEN LET n == DiscreetGpuNew(scan, fail, asus, bus_ok)
         IN  IF n.result = "Ok"
             THEN [result |-> "Ok", gpu |-> n.gpu, found |-> TRUE]
             ELSE [result |-> "Ok", gpu |-> gpu, found |-> FALSE]
    ELSE [result |-> IF bus_ok THEN "Ok" ELSE "Err", gpu |-> gpu, found |-> FALSE]

\* The keys of a configuration document that GfxConfig has no field for
UnknownKeys == {"fan_curve"}

\* The configuration documents load can meet: an empty file, text that is no JSON
\* object of the current fields, and a JSON object with every current field and
\* possibly further keys.
Documents ==
    {[kind |-> "empty", fields |-> Nil, unknown |-> {}],
     [kind |-> "garbage", fields |-> Nil, unknown |-> {}]}
    \cup {[kind |-> "json",
           fields |-> [mode |-> m, vfio_enable |-> ve, vfio_save |-> vs,
                       always_reboot |-> ar, no_logind |-> nl, logout_timeout_s |-> t,
                       hotplug_type |-> h],
           unknown |-> u] :
             m \in GfxMode, ve \in BOOLEAN, vs \in BOOLEAN, ar \in BOOLEAN,
             nl \in BOOLEAN, t \in {0, 180}, h \in HotplugType, u \in SUBSET UnknownKeys}

\* serde_json::from_str::<GfxConfig>: the keys without a field are passed over, the
\* #[serde(skip)] fields take their defaults (String::default(), None)
from_str(doc) ==
    [config_path |-> "", mode |-> doc.fields.mode, tmp_mode |-> Nil,
     pending_mode |-> Nil, pending_action |-> Nil,
     vfio_enable |-> doc.fields.vfio_enable, vfio_save |-> doc.fields.vfio_save,
     always_reboot |-> doc.fields.always_reboot, no_logind |-> doc.fields.no_logind,
     logout_timeout_s |-> doc.fields.logout_timeout_s,
     hotplug_type |-> doc.fields.hotplug_type]

\* load's config = data; config.config_path = config_path
Deserialize(doc) == [from_str(doc) EXCEPT !.config_path = "supergfxd.conf"]

\* GfxConfig::read: an empty file leaves self as it is, a file that does not parse
\* panics, and otherwise *self = x after x.tmp_mode = self.tmp_mode
read(self, doc) ==
    CASE doc.kind = "empty" -> [result |-> "Ok", config |-> self]
      [] doc.kind = "garbage" -> [result |-> "Panic", config |-> self]
      [] doc.kind = "json" ->
           [result |-> "Ok", config |-> [from_str(doc) EXCEPT !.tmp_mode = self.tmp_mode]]

\* The configurations read() is called on: the daemon's, with the fields that are
\* not persisted set or not
ReadConfigs ==
    {[NewConfig("Integrated", TRUE, FALSE, FALSE, "Std")
         EXCEPT !.tmp_mode = t, !.pending_mode = pm, !.pending_action = pa] :
        t \in {Nil, "Vfio"}, pm \in {Nil, "Hybrid"}, pa \in {Nil, "Logout"}}

\* GfxConfig::write as a document: File::create, then the serialised fields
WriteDocument(c) == [kind |-> "json", fields |-> Serialize(c), unknown |-> {}]

\* GfxConfig::write: File::create(&self.config_path).expect(..) panics when the path
\* names no file that can be created, as the empty path does
write(c) ==
    IF c.config_path = ""
    THEN [result |-> "Panic", path |-> c.config_path, file |-> Nil]
    ELSE [result |-> "Ok", path |-> c.config_path, file |-> WriteDocument(c)]

\* A plausible slip: load leaves a file it could parse as it is.
load_keeps_parsed_file(doc) ==
    IF doc.kind = "json"
    THEN [config |-> Deserialize(doc), file |-> doc]
    ELSE [config |-> NewConfig("Hybrid", FALSE, FALSE, FALSE, "None"),
          file |-> WriteDocument(NewConfig("Hybrid", FALSE, FALSE, FALSE, "None"))]

\* GfxConfig::load: an empty file and a file that does not parse give GfxConfig::new;
\* config.write() follows in every case.
load(doc) ==
    LET c == IF doc.kind = "json"
             THEN Deserialize(doc)
             ELSE NewConfig("Hybrid", FALSE, FALSE, FALSE, "None")
    IN  [config |-> c, file |-> WriteDocument(c)]

\* The pci_id lists of a device set
DeviceLists == UNION {[1..n -> PciIds] : n \in 0..MaxDevices}

\* The devices of a set as unbind and remove see them: whether the driver link
\* exists, whether the device path exists
SysfsDevices == UNION {[1..n -> [driver : BOOLEAN, present : BOOLEAN]] : n \in 0..MaxDevices}

\* The modprobe file before the call
PreviousContents ==
    {NoFile, ModprobeContent("Hybrid", <<"10DE:2520">>), ModprobeContent("Vfio", <<"10DE:2520">>)}

EngineUnused ==
    /\ config = NewConfig("Hybrid", FALSE, FALSE, FALSE, "None")
    /\ file = Serialize(config)
    /\ vendor = "Unknown"
    /\ iface = NoClient
    /\ pc = [c \in Clients |-> "idle"]
    /\ via = [c \in Clients |-> "none"]
    /\ req = [c \in Clients |-> NoReq]
    /\ plan = [c \in Clients |-> << >>]
    /\ done = [c \in Clients |-> << >>]
    /\ res = [c \in Clients |-> NoRes]
    /\ nset = 0
    /\ sig = [c \in Clients |-> << >>]

OpCalls ==
    {[fn |-> "create_modprobe_conf", mode |-> m, vendor |-> v, devices |-> d, before |-> b] :
        m \in GfxMode, v \in GfxVendor, d \in DeviceLists, b \in PreviousContents}
    \cup {[fn |-> "check_vulkan_icd", mode |-> m, icd |-> n] :
             m \in GfxMode, n \in {"active", "inactive", "both", "absent"}}
    \cup {[fn |-> "unbind_remove", vendor |-> v, devices |-> d] :
             v \in GfxVendor, d \in SysfsDevices}
    \cup {[fn |-> "do_driver_action", vendor |-> v, action |-> a] :
             v \in GfxVendor, a \in DriverAction}
    \cup {[fn |-> "new", scan |-> s] : s \in Scans}
    \cup {[fn |-> "load", doc |-> d] : d \in Documents}
    \cup {[fn |-> "find", dev |-> d, label |-> l] : d \in PciDevices, l \in ModelLabels}
    \cup {[fn |-> "read", self |-> c, doc |-> d] : c \in ReadConfigs, d \in Documents}

OpInit ==
    /\ EngineUnused
    /\ call \in OpCalls
    /\ ret = Pending
    /\ GateUnused
    /\ ExecUnused

ApplyCreateModprobeConf ==
    /\ call.fn = "create_modprobe_conf"
    /\ ret = Pending
    /\ \E o \in create_modprobe_conf(call.mode, call.vendor, call.devices, call.before) :
          ret' = [kind |-> "Written", content |-> o.content, result |-> o.result]
    /\ UNCHANGED <<engineVars, call, gateVars, execVars>>

ApplyCheckVulkanIcd ==
    /\ call.fn = "check_vulkan_icd"
    /\ ret = Pending
    /\ \E o \in check_vulkan_icd(call.mode, call.icd) :
          ret' = [kind |-> "Checked", times |-> 1, first |-> o, second |-> o]
    /\ UNCHANGED <<engineVars, call, gateVars, execVars>>

\* check_vulkan_icd(mode) once more, on the files the first call left
ApplyCheckVulkanIcdAgain ==
    /\ call.fn = "check_vulkan_icd"
    /\ ret.kind = "Checked"
    /\ ret.times = 1
    /\ \E o \in check_vulkan_icd(call.mode, ret.first.icd) :
          ret' = [ret EXCEPT !.times = 2, !.second = o]
    /\ UNCHANGED <<engineVars, call, gateVars, execVars>>

ApplyUnbindRemove ==
    /\ call.fn = "unbind_remove"
    /\ ret = Pending
    /\ \E o \in unbind_remove(call.vendor, call.devices) :
          ret' = [kind |-> "Unbound", log |-> o.log, result |-> o.result]
    /\ UNCHANGED <<engineVars, call, gateVars, execVars>>

ApplyDoDriverAction ==
    /\ call.fn = "do_driver_action"
    /\ ret = Pending
    /\ \E o \in do_driver_action(call.vendor, call.action) :
          ret' = [kind |-> "Modules", log |-> o.log, result |-> o.result]
    /\ UNCHANGED <<engineVars, call, gateVars, execVars>>

\* What DiscreetGpu::new can return for a scan: any `?` of find may fail, the ASUS
\* controls may say anything, the write to rescan may fail.
NewOutcomes(scan) ==
    {DiscreetGpuNew(scan, fail, asus, bus_ok) :
        fail \in 0..Len(scan), asus \in AsusStates, bus_ok \in BOOLEAN}

ApplyNew ==
    /\ call.fn = "new"
    /\ ret = Pending
    /\ \E n \in NewOutcomes(call.scan) :
          ret' = [kind |-> "Gpu", after |-> "new", result |-> n.result, gpu |-> n.gpu,
                  scan |-> call.scan]
    /\ UNCHANGED <<engineVars, call, gateVars, execVars>>

\* What rescan_pci can do to a DiscreetGpu when the bus shows `scan`
RescanOutcomes(gpu, scan) ==
    {rescan_pci(gpu, scan, fail, asus, bus_ok) :
        fail \in 0..Len(scan), asus \in AsusStates, bus_ok \in BOOLEAN}

\* The RescanPci step on the DiscreetGpu that new returned; the bus then shows what
\* it showed before, or nothing.
ApplyRescanPci ==
    /\ call.fn = "new"
    /\ ret.kind = "Gpu"
    /\ ret.after = "new"
    /\ ret.result = "Ok"
    /\ \E scan \in {call.scan, << >>} :
          \E r \in RescanOutcomes(ret.gpu, scan) :
             ret' = [kind |-> "Gpu", after |-> "rescan", result |-> r.result,
                     gpu |-> r.gpu, scan |-> IF r.found THEN scan ELSE ret.scan]
    /\ UNCHANGED <<engineVars, call, gateVars, execVars>>

ApplyLoad ==
    /\ call.fn = "load"
    /\ ret = Pending
    /\ LET l == load(call.doc)
       IN  ret' = [kind |-> "Loaded", config |-> l.config, file |-> l.file]
    /\ UNCHANGED <<engineVars, call, gateVars, execVars>>

ApplyFind ==
    /\ call.fn = "find"
    /\ ret = Pending
    /\ LET f == find_labelled(call.dev, call.label)
       IN  ret' = [kind |-> "Found", called |-> f.called, value |-> f.value,
                   result |-> f.found.result, devices |-> f.found.devices]
    /\ UNCHANGED <<engineVars, call, gateVars, execVars>>

ApplyRead ==
    /\ call.fn = "read"
    /\ ret = Pending
    /\ LET r == read(call.self, call.doc)
       IN  ret' = [kind |-> "Read", after |-> "read", result |-> r.result,
                   config |-> r.config, path |-> Nil]
    /\ UNCHANGED <<engineVars, call, gateVars, execVars>>

\* write() on the configuration that read() left
ApplyWrite ==
    /\ call.fn = "read"
    /\ ret.kind = "Read"
    /\ ret.after = "read"
    /\ ret.result = "Ok"
    /\ LET w == write(ret.config)
       IN  ret' = [ret EXCEPT !.after = "write", !.result = w.result, !.path = w.path]
    /\ UNCHANGED <<engineVars, call, gateVars, execVars>>

OpNext ==
    \/ ApplyCreateModprobeConf
    \/ ApplyCheckVulkanIcd
    \/ ApplyCheckVulkanIcdAgain
    \/ ApplyUnbindRemove
    \/ ApplyDoDriverAction
    \/ ApplyNew
    \/ ApplyRescanPci
    \/ ApplyLoad
    \/ ApplyFind
    \/ ApplyRead
    \/ ApplyWrite

OpSpec == OpInit /\ [][OpNext]_vars

(***************************************************************************)
(* Properties of the planner (checked under PlanSpec)                      *)
(***************************************************************************)
SwitchReturned == call.fn = "switch" /\ ret.kind # "Pending"

BootReturned == call.fn = "boot" /\ ret.kind # "Pending"

LogindSteps == {"WaitLogout", "StopDisplayManager", "StartDisplayManager"}

NvidiaServiceSteps ==
    {"EnableNvidiaPersistenced", "DisableNvidiaPersistenced", "EnableNvidiaPowerd",
     "DisableNvidiaPowerd"}

\* C4: for every input, action_list_for_switch returns a UserAction verdict or a
\* StagedActions list, and a returned StagedActions list is never empty.
C4_PlanTotality ==
    SwitchReturned =>
        \/ ret.kind = "UserAction" /\ ret.action \in UserActionRequired
        \/ /\ ret.kind = "StagedActions"
           /\ Len(ret.steps) >= 1
           /\ \A i \in 1..Len(ret.steps) : ret.steps[i] \in StagedAction

C4_Witness ==
    SwitchReturned /\ ret.kind = "StagedActions" /\ Len(ret.steps) = 1

\* C5: a switch from a mode to itself returns UserAction(Nothing), for every mode,
\* vendor and config.
C5_Reflexivity ==
    (SwitchReturned /\ call.from = call.to) => ret = UserAction("Nothing")

C5_Witness ==
    SwitchReturned /\ call.from = "Vfio" /\ call.to = "Vfio" /\ ret.kind = "UserAction"

\* C6: with no_logind or always_reboot set, no plan of action_list_for_switch holds
\* WaitLogout, StopDisplayManager or StartDisplayManager.
C6_LogindGating ==
    (SwitchReturned /\ ret.kind = "StagedActions"
        /\ (call.config.no_logind \/ call.config.always_reboot)) =>
        \A i \in 1..Len(ret.steps) : ret.steps[i] \notin LogindSteps

C6_Witness ==
    /\ SwitchReturned /\ ret.kind = "StagedActions"
    /\ call.config.always_reboot /\ ~call.config.no_logind
    /\ Contains(ret.steps, "NoLogind")

\* C7 as stated: for a vendor other than Nvidia no plan (switch or boot) holds KillNvidia
\* or a persistenced/powerd step; the NotNvidia marker stands in their place.
C7_NvidiaOnlySteps_AsStated ==
    (ret.kind \in {"StagedActions", "BootPlan"} /\ call.vendor # "Nvidia") =>
        \A i \in 1..Len(ret.steps) :
            ret.steps[i] \notin NvidiaServiceSteps \cup {"KillNvidia"}

\* C7 as amended: for a vendor other than Nvidia no plan holds KillNvidia and no boot
\* plan holds a persistenced/powerd step; a switch plan holds the persistenced/powerd
\* steps exactly where the plan for an Nvidia dGPU holds them, and differs from that
\* plan only in its kill step (KillAmd or NotNvidia).
C7_NvidiaOnlySteps_Amended ==
    call.vendor # "Nvidia" =>
        /\ ret.kind \in {"StagedActions", "BootPlan"} =>
              ~Contains(ret.steps, "KillNvidia")
        /\ ret.kind = "BootPlan" =>
              \A i \in 1..Len(ret.steps) : ret.steps[i] \notin NvidiaServiceSteps
        /\ (SwitchReturned /\ ret.kind = "StagedActions") =>
              LET n == action_list_for_switch(call.config, "Nvidia", call.from, call.to).steps
              IN  /\ Len(n) = Len(ret.steps)
                  /\ \A i \in 1..Len(n) :
                        IF n[i] = "KillNvidia"
                        THEN ret.steps[i] \in {"KillAmd", "NotNvidia"}
                        ELSE ret.steps[i] = n[i]

C7_Witness ==
    /\ SwitchReturned /\ ret.kind = "StagedActions" /\ call.vendor = "Amd"
    /\ Contains(ret.steps, "EnableNvidiaPersistenced")
    /\ Contains(ret.steps, "EnableNvidiaPowerd")

\* C8: for every target other than AsusMuxDgpu, the switch out of AsusMuxDgpu is the
\* one-step plan [AsusMuxIgpu].
C8_AsusMuxExit ==
    (SwitchReturned /\ call.from = "AsusMuxDgpu" /\ call.to # "AsusMuxDgpu") =>
        ret = StagedActions(<<"AsusMuxIgpu">>)

C8_Witness ==
    /\ SwitchReturned /\ call.from = "AsusMuxDgpu" /\ call.to = "Integrated"
    /\ ret.kind = "StagedActions"

\* C9 as stated: every switch into None and every switch out of None returns
\* UserAction(Nothing).
C9_NoneTransitions_AsStated ==
    (SwitchReturned /\ (call.from = "None" \/ call.to = "None")) =>
        ret = UserAction("Nothing")

\* C9 as amended: every switch out of None returns UserAction(Nothing), and so does
\* every switch into None from a mode other than AsusMuxDgpu; the switch from
\* AsusMuxDgpu to None is the plan [AsusMuxIgpu].
C9_NoneTransitions_Amended ==
    /\ (SwitchReturned /\ call.from = "None") => ret = UserAction("Nothing")
    /\ (SwitchReturned /\ call.to = "None" /\ call.from # "AsusMuxDgpu") =>
          ret = UserAction("Nothing")
    /\ (SwitchReturned /\ call.to = "None" /\ call.from = "AsusMuxDgpu") =>
          ret = StagedActions(<<"AsusMuxIgpu">>)

C9_Witness ==
    /\ SwitchReturned /\ call.from = "AsusMuxDgpu" /\ call.to = "None"
    /\ ret.kind = "StagedActions"

\* C10 as stated: with vfio_enable = false the planner returns no StagedActions plan
\* for the target Vfio and produces no boot plan for Vfio.
C10_VfioGate_AsStated ==
    ((SwitchReturned \/ BootReturned) /\ call.to = "Vfio" /\ ~call.config.vfio_enable) =>
        \/ ret.kind = "UserAction"
        \/ ret.kind = "BootPlan" /\ ret.steps = << >>

\* C10 as amended: the planner does not read vfio_enable. For the target Vfio the
\* switch planner returns a plan ending with LoadVfioDrivers exactly when the current
\* mode is Integrated or NvidiaNoModeset (from AsusMuxDgpu it returns [AsusMuxIgpu],
\* from every other mode a UserAction), and the boot plan for Vfio ends with
\* LoadVfioDrivers, all for either value of vfio_enable; the gate is left to the
\* caller of the planner.
C10_VfioGate_Amended ==
    LET flipped == [call.config EXCEPT !.vfio_enable = ~@] IN
    /\ (SwitchReturned /\ call.to = "Vfio") =>
          /\ call.from \in {"Integrated", "NvidiaNoModeset"} =>
                /\ ret.kind = "StagedActions"
                /\ ret.steps[Len(ret.steps)] = "LoadVfioDrivers"
          /\ call.from = "AsusMuxDgpu" => ret = StagedActions(<<"AsusMuxIgpu">>)
          /\ call.from \notin {"Integrated", "NvidiaNoModeset", "AsusMuxDgpu"} =>
                ret.kind = "UserAction"
          /\ ret = action_list_for_switch(flipped, call.vendor, call.from, call.to)
    /\ (BootReturned /\ call.to = "Vfio") =>
          /\ Len(ret.steps) >= 1
          /\ ret.steps[Len(ret.steps)] = "LoadVfioDrivers"
          /\ ret.steps = action_list_for_boot(flipped, call.vendor, call.to)

C10_Witness ==
    /\ SwitchReturned /\ call.to = "Vfio" /\ call.from = "Integrated"
    /\ ~call.config.vfio_enable
    /\ ret.kind = "StagedActions" /\ Contains(ret.steps, "LoadVfioDrivers")

ActionReturned == call.fn = "action" /\ ret.kind # "Pending"

\* C11: for an Nvidia dGPU, every hotplug_type and every logind policy, the switch
\* Hybrid -> Integrated is exactly the eleven steps wait, stop,
\* DisableNvidiaPersistenced, DisableNvidiaPowerd, KillNvidia, UnloadGpuDrivers,
\* UnbindRemoveGpu, WriteModprobeConf, CheckVulkanIcd, hotplug_rm, start, where
\* wait/stop/start are the logind steps when !no_logind and !always_reboot and
\* NoLogind otherwise, and hotplug_rm follows hotplug_type.
C11_HybridToIntegrated ==
    (SwitchReturned /\ call.vendor = "Nvidia" /\ call.from = "Hybrid"
        /\ call.to = "Integrated") =>
        LET gated == ~call.config.no_logind /\ ~call.config.always_reboot
            h == call.config.hotplug_type
            rm == IF h = "Std" THEN "HotplugUnplug"
                  ELSE IF h = "Asus" THEN "AsusDgpuDisable" ELSE "DevTreeManaged"
        IN  ret = StagedActions(
                <<IF gated THEN "WaitLogout" ELSE "NoLogind",
                  IF gated THEN "StopDisplayManager" ELSE "NoLogind",
                  "DisableNvidiaPersistenced", "DisableNvidiaPowerd", "KillNvidia",
                  "UnloadGpuDrivers", "UnbindRemoveGpu", "WriteModprobeConf",
                  "CheckVulkanIcd", rm,
                  IF gated THEN "StartDisplayManager" ELSE "NoLogind">>)

C11_Witness ==
    /\ SwitchReturned /\ call.vendor = "Nvidia" /\ call.from = "Hybrid"
    /\ call.to = "Integrated" /\ call.config.hotplug_type = "Asus"
    /\ call.config.always_reboot
    /\ ret.kind = "StagedActions" /\ Len(ret.steps) = 11
    /\ ret.steps[10] = "AsusDgpuDisable" /\ ret.steps[1] = "NoLogind"

AmdNoLogindNone ==
    /\ call.vendor = "Amd" /\ call.config.no_logind /\ call.config.hotplug_type = "None"
    /\ call.to = "Hybrid"

\* C12 as stated: for an AMD dGPU with no_logind set and hotplug_type None, the switch
\* Integrated -> Hybrid is exactly [WriteModprobeConf, CheckVulkanIcd, DevTreeManaged,
\* RescanPci, LoadGpuDrivers, NotNvidia, NotNvidia].
C12_AmdIntegratedToHybrid_AsStated ==
    (SwitchReturned /\ AmdNoLogindNone /\ call.from = "Integrated") =>
        ret = StagedActions(<<"WriteModprobeConf", "CheckVulkanIcd", "DevTreeManaged",
                              "RescanPci", "LoadGpuDrivers", "NotNvidia", "NotNvidia">>)

\* C12 as amended: for that input the switch Integrated -> Hybrid is the ten steps
\* [NoLogind, NoLogind, WriteModprobeConf, CheckVulkanIcd, DevTreeManaged, RescanPci,
\* LoadGpuDrivers, EnableNvidiaPersistenced, EnableNvidiaPowerd, NoLogind]: the logind
\* steps become NoLogind markers and the two Nvidia service steps stay. The seven-step
\* list with the NotNvidia markers is the boot plan for Hybrid.
C12_AmdIntegratedToHybrid_Amended ==
    /\ (SwitchReturned /\ AmdNoLogindNone /\ call.from = "Integrated") =>
          ret = StagedActions(<<"NoLogind", "NoLogind", "WriteModprobeConf",
                                "CheckVulkanIcd", "DevTreeManaged", "RescanPci",
                                "LoadGpuDrivers", "EnableNvidiaPersistenced",
                                "EnableNvidiaPowerd", "NoLogind">>)
    /\ (BootReturned /\ AmdNoLogindNone) =>
          ret.steps = <<"WriteModprobeConf", "CheckVulkanIcd", "DevTreeManaged",
                        "RescanPci", "LoadGpuDrivers", "NotNvidia", "NotNvidia">>

C12_Witness ==
    /\ SwitchReturned /\ AmdNoLogindNone /\ call.from = "Integrated"
    /\ ret.kind = "StagedActions" /\ Len(ret.steps) = 10
    /\ ret.steps[8] = "EnableNvidiaPersistenced"

PlanReturned ==
    \/ SwitchReturned /\ ret.kind = "StagedActions"
    \/ BootReturned

KillSteps == {"KillNvidia", "KillAmd", "NotNvidia"}

DriverUnloadSteps == {"UnloadGpuDrivers", "UnloadVfioDrivers"}

HotplugRemovalSteps == {"HotplugUnplug", "AsusDgpuDisable"}

Earlier(s, i, set) == \E j \in 1..(i - 1) : s[j] \in set

\* C28: in every plan of the switch planner and of the boot planner, every
\* UnloadGpuDrivers has a kill step (KillNvidia, KillAmd or the NotNvidia marker)
\* before it, every UnbindRemoveGpu has a driver-unload step (UnloadGpuDrivers or
\* UnloadVfioDrivers) before it, and every hotplug-removal step (HotplugUnplug or
\* AsusDgpuDisable) has an UnbindRemoveGpu before it.
C28_TeardownOrder ==
    PlanReturned =>
        \A i \in 1..Len(ret.steps) :
            /\ ret.steps[i] = "UnloadGpuDrivers" => Earlier(ret.steps, i, KillSteps)
            /\ ret.steps[i] = "UnbindRemoveGpu" => Earlier(ret.steps, i, DriverUnloadSteps)
            /\ ret.steps[i] \in HotplugRemovalSteps =>
                  Earlier(ret.steps, i, {"UnbindRemoveGpu"})

C28_Witness ==
    /\ SwitchReturned /\ ret.kind = "StagedActions"
    /\ call.from = "AsusEgpu" /\ call.to = "Integrated"
    /\ Len(ret.steps) = 15
    /\ ret.steps[10] = "UnloadGpuDrivers" /\ ret.steps[11] = "UnbindRemoveGpu"
    /\ ret.steps[14] = "AsusDgpuDisable"

\* The two kill steps a plan can hold besides the one named.
OtherKills(k) == {"KillNvidia", "KillAmd"} \ {k}

HoldsOnlyKill(s, k) ==
    /\ Contains(s, k)
    /\ \A o \in OtherKills(k) : ~Contains(s, o)

\* C29 as stated: in a plan that unloads the GPU drivers, of the switch planner and
\* of the boot planner alike, the kill step is KillNvidia when the vendor is Nvidia,
\* KillAmd when it is Amd, and the NotNvidia marker for every other vendor.
C29_KillStep_AsStated ==
    (PlanReturned /\ Contains(ret.steps, "UnloadGpuDrivers")) =>
        HoldsOnlyKill(ret.steps,
                      CASE call.vendor = "Nvidia" -> "KillNvidia"
                        [] call.vendor = "Amd" -> "KillAmd"
                        [] OTHER -> "NotNvidia")

\* C29 as amended: the switch planner resolves the kill step to KillNvidia for
\* Nvidia, KillAmd for Amd and the NotNvidia marker for every other vendor; the boot
\* planner resolves it to KillNvidia for Nvidia and to KillAmd for every other
\* vendor, Intel, Unknown and AsusDgpuDisabled included.
C29_KillStep_Amended ==
    /\ (SwitchReturned /\ ret.kind = "StagedActions"
           /\ Contains(ret.steps, "UnloadGpuDrivers")) =>
          HoldsOnlyKill(ret.steps,
                        CASE call.vendor = "Nvidia" -> "KillNvidia"
                          [] call.vendor = "Amd" -> "KillAmd"
                          [] OTHER -> "NotNvidia")
    /\ (BootReturned /\ Contains(ret.steps, "UnloadGpuDrivers")) =>
          HoldsOnlyKill(ret.steps,
                        IF call.vendor = "Nvidia" THEN "KillNvidia" ELSE "KillAmd")

C29_Witness ==
    /\ BootReturned /\ call.vendor = "Intel" /\ call.to = "Integrated"
    /\ ret.steps[3] = "KillAmd" /\ ret.steps[4] = "UnloadGpuDrivers"

\* C32 as stated: the boot plan of every mode in which the dGPU runs on its own
\* driver (Hybrid, NvidiaNoModeset, AsusEgpu, AsusMuxDgpu) holds LoadGpuDrivers and
\* neither UnloadGpuDrivers nor UnbindRemoveGpu, and no boot plan holds WaitLogout,
\* StopDisplayManager or StartDisplayManager.
C32_BootPlans_AsStated ==
    BootReturned =>
        /\ call.to \in {"Hybrid", "NvidiaNoModeset", "AsusEgpu", "AsusMuxDgpu"} =>
              /\ Contains(ret.steps, "LoadGpuDrivers")
              /\ ~Contains(ret.steps, "UnloadGpuDrivers")
              /\ ~Contains(ret.steps, "UnbindRemoveGpu")
        /\ \A i \in 1..Len(ret.steps) : ret.steps[i] \notin LogindSteps

\* C32 as amended: the boot plans of Hybrid, AsusEgpu and AsusMuxDgpu hold
\* LoadGpuDrivers and neither UnloadGpuDrivers nor UnbindRemoveGpu; the boot plan of
\* NvidiaNoModeset is the boot plan of Integrated, with UnloadGpuDrivers and
\* UnbindRemoveGpu and without LoadGpuDrivers; no boot plan holds WaitLogout,
\* StopDisplayManager or StartDisplayManager.
C32_BootPlans_Amended ==
    BootReturned =>
        /\ call.to \in {"Hybrid", "AsusEgpu", "AsusMuxDgpu"} =>
              /\ Contains(ret.steps, "LoadGpuDrivers")
              /\ ~Contains(ret.steps, "UnloadGpuDrivers")
              /\ ~Contains(ret.steps, "UnbindRemoveGpu")
        /\ call.to \in {"NvidiaNoModeset", "Integrated"} =>
              /\ Len(ret.steps) = 8
              /\ ret.steps[4] = "UnloadGpuDrivers"
              /\ ret.steps[5] = "UnbindRemoveGpu"
              /\ ret.steps[8] \in {"HotplugUnplug", "AsusDgpuDisable", "DevTreeManaged"}
              /\ ~Contains(ret.steps, "LoadGpuDrivers")
        /\ \A i \in 1..Len(ret.steps) : ret.steps[i] \notin LogindSteps

C32_Witness ==
    /\ BootReturned /\ call.to = "NvidiaNoModeset" /\ call.vendor = "Nvidia"
    /\ ~call.config.no_logind /\ ~call.config.always_reboot
    /\ ret.steps[4] = "UnloadGpuDrivers" /\ ret.steps[5] = "UnbindRemoveGpu"

Count(s, x) == Cardinality({i \in 1..Len(s) : s[i] = x})

\* C35: in every plan of action_list_for_switch, WaitLogout, StopDisplayManager and
\* StartDisplayManager are all present or all absent; when present each occurs once,
\* WaitLogout is the first step, StopDisplayManager the second and
\* StartDisplayManager the last.
C35_SessionBracket ==
    (SwitchReturned /\ ret.kind = "StagedActions") =>
        \/ \A i \in 1..Len(ret.steps) : ret.steps[i] \notin LogindSteps
        \/ /\ \A x \in LogindSteps : Count(ret.steps, x) = 1
           /\ ret.steps[1] = "WaitLogout"
           /\ ret.steps[2] = "StopDisplayManager"
           /\ ret.steps[Len(ret.steps)] = "StartDisplayManager"

C35_Witness ==
    /\ SwitchReturned /\ ret.kind = "StagedActions"
    /\ call.from = "Vfio" /\ call.to = "AsusEgpu"
    /\ ret.steps[1] = "WaitLogout" /\ ret.steps[2] = "StopDisplayManager"
    /\ ret.steps[3] = "UnloadVfioDrivers"
    /\ ret.steps[Len(ret.steps)] = "StartDisplayManager"

GatingOn == ~call.config.no_logind /\ ~call.config.always_reboot

\* What the switch planner returns for the pair mode_change_action was asked about
PlanForPair == action_list_for_switch(call.config, call.vendor, call.from, call.to)

PlanWaitsLogout == PlanForPair.kind = "StagedActions" /\ Contains(PlanForPair.steps, "WaitLogout")

\* C37 as stated: with logind gating on, for every pair (from, to),
\* mode_change_action(to, from) is Logout exactly when action_list_for_switch(from, to)
\* is a plan that holds WaitLogout, and a UserAction verdict of the planner other than
\* Nothing is also what mode_change_action returns.
C37_ActionAgreesWithPlan_AsStated ==
    (ActionReturned /\ GatingOn) =>
        /\ ret.action = "Logout" <=> PlanWaitsLogout
        /\ (PlanForPair.kind = "UserAction" /\ PlanForPair.action # "Nothing") =>
              ret.action = PlanForPair.action

\* The pairs <<from, to>> for which mode_change_action says Logout and the planner
\* returns no plan that waits for the logout
LogoutWithoutWait ==
    {<<"Hybrid", "Vfio">>, <<"AsusEgpu", "Vfio">>, <<"AsusEgpu", "NvidiaNoModeset">>,
     <<"NvidiaNoModeset", "AsusEgpu">>}

\* C37 as amended: with logind gating on, mode_change_action(to, from) is Logout
\* exactly when the plan of action_list_for_switch(from, to) holds WaitLogout, except
\* for Hybrid -> Vfio, AsusEgpu -> Vfio, AsusEgpu -> NvidiaNoModeset and
\* NvidiaNoModeset -> AsusEgpu (Logout, but a verdict and no plan) and Vfio -> AsusEgpu
\* (a plan with WaitLogout, but SwitchToIntegrated). No verdict of the planner other
\* than Nothing is what mode_change_action returns: for Hybrid -> Vfio and
\* AsusEgpu -> Vfio the planner says SwitchToIntegrated and mode_change_action Logout,
\* for AsusEgpu -> AsusMuxDgpu the planner says AsusEgpuDisable and
\* mode_change_action Reboot.
C37_ActionAgreesWithPlan_Amended ==
    (ActionReturned /\ GatingOn) =>
        /\ <<call.from, call.to>> \in LogoutWithoutWait =>
              (ret.action = "Logout" /\ PlanForPair.kind = "UserAction")
        /\ <<call.from, call.to>> = <<"Vfio", "AsusEgpu">> =>
              (ret.action = "SwitchToIntegrated" /\ PlanWaitsLogout)
        /\ <<call.from, call.to>> \notin LogoutWithoutWait \cup {<<"Vfio", "AsusEgpu">>} =>
              (ret.action = "Logout" <=> PlanWaitsLogout)
        /\ (PlanForPair.kind = "UserAction" /\ PlanForPair.action # "Nothing") =>
              /\ ret.action # PlanForPair.action
              /\ <<call.from, call.to, PlanForPair.action, ret.action>> \in
                    {<<"Hybrid", "Vfio", "SwitchToIntegrated", "Logout">>,
                     <<"AsusEgpu", "Vfio", "SwitchToIntegrated", "Logout">>,
                     <<"AsusEgpu", "AsusMuxDgpu", "AsusEgpuDisable", "Reboot">>}

C37_Witness ==
    /\ ActionReturned /\ GatingOn
    /\ call.from = "AsusEgpu" /\ call.to = "AsusMuxDgpu"
    /\ ret.action = "Reboot"
    /\ PlanForPair = UserAction("AsusEgpuDisable")

(***************************************************************************)
(* Properties of the engine (checked under Spec)                           *)
(***************************************************************************)
InFlight(c) == pc[c] \in {"executing", "returning"}

AllOk(d) == \A i \in 1..Len(d) : d[i].result = "Ok"

\* C1: the steps of a plan are performed in list order with none skipped; the plan runs
\* to its last step, or stops at the first step that returns an error: no later step is
\* performed and the caller gets the error.
C1_PlanExecution ==
    \A c \in Clients :
        LET d == done[c]
            p == plan[c]
        IN  /\ Len(d) <= Len(p)
            /\ \A i \in 1..Len(d) : d[i].step = p[i]
            /\ \A i \in 1..(Len(d) - 1) : d[i].result = "Ok"
            /\ pc[c] = "executing" => (Len(d) < Len(p) /\ AllOk(d))
            /\ (pc[c] = "returning" /\ p # << >>) =>
                  \/ Len(d) = Len(p) /\ AllOk(d) /\ res[c].kind = "Ok"
                  \/ d[Len(d)].result = "Err" /\ res[c].kind = "Err"

C1_Witness ==
    \E c \in Clients :
        /\ pc[c] = "returning" /\ res[c].kind = "Err"
        /\ Len(done[c]) >= 2 /\ Len(done[c]) < Len(plan[c])
        /\ done[c][Len(done[c])].result = "Err"

\* C2: at most one mode switch is in flight: while one caller's set_mode or set_config
\* is planning, executing or returning, no other caller's is, and that caller holds
\* the interface.
C2_OneSwitchInFlight ==
    \A c1, c2 \in Clients :
        InFlight(c1) => /\ iface = c1
                        /\ (c2 # c1 => ~InFlight(c2))

C2_Witness ==
    \E c1, c2 \in Clients :
        /\ c1 # c2
        /\ pc[c1] = "executing" /\ Len(done[c1]) >= 1
        /\ pc[c2] = "queued"

\* C3: when a request yields staged steps, config.mode is set to the target and
\* persisted before the first step; during the execution and after a failed step the
\* persisted mode is the target, and a request that yields no steps leaves the
\* persisted mode as it was.
C3_PersistedMode ==
    /\ file.mode = config.mode
    /\ \A c \in Clients :
          /\ (InFlight(c) /\ plan[c] # << >>) => file.mode = req[c].to
          /\ (InFlight(c) /\ plan[c] = << >> /\ req[c] # NoReq) => file.mode = req[c].from

C3_Witness ==
    \E c \in Clients :
        /\ pc[c] = "returning" /\ res[c].kind = "Err" /\ Len(done[c]) >= 1
        /\ req[c].to # req[c].from
        /\ file.mode = req[c].to

Emitted(c, name) == {sig[c][i].arg : i \in {j \in 1..Len(sig[c]) : sig[c][j].signal = name}}

CalledSetMode(c) == res'[c] # NoRes

\* C38 as stated: set_config calls set_mode exactly when the mode of the supplied
\* config differs from the mode of the current config, and then it asks for the
\* supplied mode.
C38_SetConfigSwitch_AsStated ==
    [][\A c \in Clients, view \in ConfigViews :
          SetConfig(c, view) =>
              /\ CalledSetMode(c) <=> view.mode # config.mode
              /\ CalledSetMode(c) => req'[c].to = view.mode]_vars

\* C39 as stated: after set_config(c) the view that config() returns has the
\* vfio_enable, vfio_save, always_reboot, no_logind, logout_timeout_s and hotplug_type
\* of c, and the configuration file holds those values.
C39_ConfigRoundTrip_AsStated ==
    [][\A c \in Clients, view \in ConfigViews :
          SetConfig(c, view) =>
              LET after == GfxConfigDbusFrom(config')
              IN  /\ after.vfio_enable = view.vfio_enable
                  /\ after.vfio_save = view.vfio_save
                  /\ after.always_reboot = view.always_reboot
                  /\ after.no_logind = view.no_logind
                  /\ after.logout_timeout_s = view.logout_timeout_s
                  /\ after.hotplug_type = view.hotplug_type
                  /\ file' = Serialize(config')]_vars

\* C39 as amended: after set_config(c) the view that config() returns has the
\* vfio_enable, vfio_save, always_reboot, no_logind and logout_timeout_s of c, while
\* its hotplug_type and its mode are those the configuration had before; set_config
\* does not write the configuration file (when the supplied mode differs from the
\* current one, the file is as it was).
C39_ConfigRoundTrip_Amended ==
    [][\A c \in Clients, view \in ConfigViews :
          SetConfig(c, view) =>
              LET after == GfxConfigDbusFrom(config')
              IN  /\ after.vfio_enable = view.vfio_enable
                  /\ after.vfio_save = view.vfio_save
                  /\ after.always_reboot = view.always_reboot
                  /\ after.no_logind = view.no_logind
                  /\ after.logout_timeout_s = view.logout_timeout_s
                  /\ after.hotplug_type = config.hotplug_type
                  /\ after.mode = config.mode
                  /\ view.mode # config.mode => file' = file]_vars

C39_Witness ==
    \E c \in Clients :
        /\ via[c] = "set_config" /\ pc[c] = "returning" /\ res[c] = NoRes
        /\ config.always_reboot /\ config.no_logind
        /\ ~file.always_reboot /\ ~file.no_logind
        /\ config.hotplug_type = "Std"

(***************************************************************************)
(* Properties of the session gate (checked under GateSpec)                 *)
(***************************************************************************)
GraphicalUserSession(s) ==
    /\ s.class = "User"
    /\ s.type \in {"X11", "Wayland", "MIR"}
    /\ s.state \in {"Online", "Active"}

TimedOut == gate_ret = Err("SystemdUnitWaitTimeout")

ConfiguredTimeoutExceeded ==
    config.logout_timeout_s # 0 /\ elapsed > config.logout_timeout_s

\* C14: a listed session counts as a graphical user session exactly when its class is
\* User, its type is X11, Wayland or Mir and its state is Online or Active; after a
\* poll that lists such a session wait_logout goes on (to its timeout test and the
\* next poll), and after the first poll that lists none it leaves the loop and
\* returns Ok.
C14_SessionGate ==
    [][/\ (gate_pc = "listed" /\ gate_pc' # gate_pc) =>
             IF \E i \in 1..Len(sessions) : GraphicalUserSession(sessions[i])
             THEN gate_pc' = "timeout"
             ELSE gate_pc' = "broke"
       /\ (gate_pc = "broke" /\ gate_pc' # gate_pc) =>
             gate_pc' = "returned" /\ gate_ret'.kind = "Ok"]_vars

C14_Witness ==
    /\ gate_pc = "returned" /\ gate_ret.kind = "Ok" /\ gate_ret.action = "broke"
    /\ elapsed > 0
    /\ ~cancelled

\* C15 as stated: wait_logout returns the SystemdUnitWaitTimeout error only when the
\* configured logout_timeout_s is not 0 and the elapsed time exceeds it, and it does
\* not go back to sleep with a graphical session present once that time is exceeded.
C15_GateTimeout_AsStated ==
    /\ TimedOut => ConfiguredTimeoutExceeded
    /\ gate_pc = "sleep" => ~ConfiguredTimeoutExceeded

\* C16 as stated: once the controller has stored true into loop_exit, before the
\* polling starts or during it, wait_logout finds the flag set at its next check.
C16_Cancellation_AsStated ==
    (cancelled /\ gate_pc = "check") => loop_exit

GateReturns == gate_pc' = "returned" /\ gate_pc # "returned"

\* C33 as stated: wait_logout returns Ok only when its last poll found no graphical
\* user session; leaving the loop because of the cancellation flag is not reported
\* as success.
C33_GateSuccess_AsStated ==
    (gate_pc = "returned" /\ gate_ret.kind = "Ok") => gate_ret.action = "broke"

\* C33 as amended: wait_logout returns Ok in two cases, when its last poll listed no
\* graphical user session and when the loop test found the cancellation flag set
\* (also before any poll); the timeout returns an error, never Ok.
C33_GateSuccess_Amended ==
    [][/\ (GateReturns /\ gate_ret'.kind = "Ok") => gate_pc \in {"broke", "flag_exit"}
       /\ (gate_pc' = "broke" /\ gate_pc # "broke") =>
             /\ gate_pc = "listed"
             /\ ~\E i \in 1..Len(sessions) : GraphicalUserSession(sessions[i])
       /\ (gate_pc' = "flag_exit" /\ gate_pc # "flag_exit") =>
             gate_pc = "check" /\ loop_exit
       /\ (gate_pc = "timeout" /\ GateReturns) => gate_ret'.kind = "Err"]_vars

C33_Witness ==
    /\ gate_pc = "returned"
    /\ gate_ret = [kind |-> "Ok", action |-> "flag_exit"]
    /\ cancelled
    /\ elapsed > 0

(***************************************************************************)
(* Properties of the plan runs (checked under ExecSpec)                    *)
(***************************************************************************)
PlanCompleted == phase = "idle"

SwitchCompleted == phase = "idle" /\ plan_kind = "switch"

SwitchStarted == plan_kind = "switch" /\ phase \in {"running", "idle", "failed"}

BootStarted == plan_kind = "boot" /\ phase \in {"running", "idle", "failed"}

\* The content the specification gives for each mode (Nvidia dGPU)
SpecifiedContent(m) ==
    CASE m \in {"Hybrid", "AsusEgpu", "NvidiaNoModeset"} ->
           <<"MODPROBE_NVIDIA_BASE", "MODPROBE_NVIDIA_DRM_MODESET_OFF",
             "MODPROBE_NVIDIA_EC_BKLT">>
      [] m = "Integrated" ->
           <<"MODPROBE_INTEGRATED", "MODPROBE_NVIDIA_DRM_MODESET_OFF",
             "MODPROBE_NVIDIA_EC_BKLT">>
      [] m = "Vfio" ->
           <<"MODPROBE_INTEGRATED", "MODPROBE_VFIO", "10DE:2520", ",", "10DE:228E", ",">>
      [] m \in {"AsusMuxDgpu", "None"} -> << >>

MuxExits == {<<"AsusMuxDgpu", t>> : t \in GfxMode \ {"AsusMuxDgpu"}}

\* The switches whose plan holds no WriteModprobeConf
NoWriteSwitches ==
    {<<"Vfio", "Integrated">>, <<"Hybrid", "AsusMuxDgpu">>,
     <<"NvidiaNoModeset", "AsusMuxDgpu">>, <<"Vfio", "AsusMuxDgpu">>} \cup MuxExits

\* The switches whose plan holds no CheckVulkanIcd
NoCheckSwitches ==
    {<<"Vfio", "Integrated">>, <<"NvidiaNoModeset", "AsusMuxDgpu">>,
     <<"Vfio", "AsusMuxDgpu">>} \cup MuxExits

\* C17: the CheckVulkanIcd step returns Ok whatever check_vulkan_icd returned, so a
\* failed rename never ends a plan and the steps after it are performed; every other
\* step returns what its callee returned, and an error of it ends the plan.
C17_VulkanIcdNeverAborts ==
    /\ last.step = "CheckVulkanIcd" => (last.result = "Ok" /\ phase # "failed")
    /\ last.step # "CheckVulkanIcd" => last.result = last.inner
    /\ phase = "failed" <=> last.result = "Err"
    /\ (icd_err /\ phase = "failed") => last.step # "CheckVulkanIcd"

C17_Witness ==
    /\ PlanCompleted /\ icd_err
    /\ ip = Len(steps) /\ last.step = "StartDisplayManager"

\* C19 as stated: every StagedActions plan of action_list_for_switch holds
\* WriteModprobeConf, and for an Nvidia dGPU the modprobe file holds, after every
\* completed switch, the content defined for the mode reached.
C19_ModprobeFresh_AsStated ==
    /\ SwitchStarted => Contains(steps, "WriteModprobeConf")
    /\ (SwitchCompleted /\ vendor = "Nvidia") => modprobe = SpecifiedContent(cur_mode)

\* C19 as amended: a switch plan holds WriteModprobeConf unless the switch is
\* Vfio -> Integrated, Hybrid -> AsusMuxDgpu, NvidiaNoModeset -> AsusMuxDgpu,
\* Vfio -> AsusMuxDgpu or leaves AsusMuxDgpu. For an Nvidia dGPU, after a completed
\* plan that holds WriteModprobeConf the file holds the content defined for the mode
\* reached; after a completed plan without it the file is as it was before the plan.
C19_ModprobeFresh_Amended ==
    /\ SwitchStarted =>
          (Contains(steps, "WriteModprobeConf")
              <=> <<from_mode, changing_to>> \notin NoWriteSwitches)
    /\ (PlanCompleted /\ vendor = "Nvidia") =>
          IF Contains(steps, "WriteModprobeConf")
          THEN modprobe = SpecifiedContent(cur_mode)
          ELSE modprobe = modprobe0

C19_Witness ==
    /\ SwitchCompleted /\ vendor = "Nvidia"
    /\ from_mode = "Vfio" /\ cur_mode = "Integrated"
    /\ modprobe = SpecifiedContent("Vfio")

HasRun(step) == \E i \in 1..ip : steps[i] = step

StopRan == HasRun("StopDisplayManager")

StartRan == HasRun("StartDisplayManager")

CompletedIn(m) == phase = "idle" /\ cur_mode = m

\* The plans that bring the dGPU back with the add step of the configured hotplug
\* type: the switch from Integrated to Hybrid and the boot plan of Hybrid
AddsBack ==
    /\ changing_to = "Hybrid"
    /\ \/ plan_kind = "switch" /\ from_mode = "Integrated"
       \/ plan_kind = "boot"

\* C36 as stated: with hotplug_type Std or Asus, after any sequence of completed
\* plans, whenever the current mode is Hybrid or NvidiaNoModeset every removal
\* (HotplugUnplug, AsusDgpuDisable) performed by an earlier plan has been followed by
\* the matching add step (HotplugPlug, AsusDgpuEnable).
C36_HotplugUndone_AsStated ==
    (CompletedIn("Hybrid") \/ CompletedIn("NvidiaNoModeset")) => hotplug_state = "On"

\* C36 as amended: with hotplug_type Std or Asus, the removal of an earlier plan has
\* been undone by the matching add step when LoadGpuDrivers runs in, and when the
\* machine has completed, the switch from Integrated to Hybrid or the boot plan of
\* Hybrid. (No other plan that ends in Hybrid or NvidiaNoModeset is covered: the
\* switch from Integrated to NvidiaNoModeset and the switches from Vfio hold no add
\* step, and the boot plan of NvidiaNoModeset ends with the removal step.)
C36_HotplugUndone_Amended ==
    /\ (AddsBack /\ phase = "idle") => hotplug_state = "On"
    /\ (AddsBack /\ phase = "running" /\ steps[ip + 1] = "LoadGpuDrivers") =>
           hotplug_state = "On"

C36_Witness ==
    /\ AddsBack /\ plan_kind = "switch" /\ phase = "running"
    /\ steps[ip + 1] = "LoadGpuDrivers"
    /\ hotplug_state = "On"
    /\ \E i \in 1..ip : steps[i] \in {"HotplugPlug", "AsusDgpuEnable"}
    /\ modprobe0 = ModprobeContent("Integrated", ExecDevices)

(***************************************************************************)
(* Properties of the operations (checked under OpSpec)                     *)
(***************************************************************************)
Wrote == call.fn = "create_modprobe_conf" /\ ret.kind = "Written"

\* The pci ids of a device set in set order, a comma after each
RECURSIVE IdsEachWithComma(_)
IdsEachWithComma(devices) ==
    IF devices = << >> THEN << >>
    ELSE <<Head(devices), ",">> \o IdsEachWithComma(Tail(devices))

\* The content the specification gives for a mode and a device set (Nvidia dGPU)
StatedContent(m, devices) ==
    CASE m \in {"Hybrid", "AsusEgpu", "NvidiaNoModeset"} ->
           <<"MODPROBE_NVIDIA_BASE", "MODPROBE_NVIDIA_DRM_MODESET_OFF",
             "MODPROBE_NVIDIA_EC_BKLT">>
      [] m = "Integrated" ->
           <<"MODPROBE_INTEGRATED", "MODPROBE_NVIDIA_DRM_MODESET_OFF",
             "MODPROBE_NVIDIA_EC_BKLT">>
      [] m = "Vfio" -> <<"MODPROBE_INTEGRATED", "MODPROBE_VFIO">> \o IdsEachWithComma(devices)
      [] m \in {"AsusMuxDgpu", "None"} -> << >>

\* C21: for an Nvidia dGPU (a device set that holds at least the dGPU), after
\* create_modprobe_conf(m, devices) succeeds the modprobe file holds exactly the
\* content defined for m and nothing of what it held before: the Nvidia base with the
\* DRM-modeset-off and EC-backlight lines for Hybrid, AsusEgpu and NvidiaNoModeset;
\* the blacklist base with those two lines for Integrated; the blacklist base and the
\* vfio-pci ids line with the pci_id of every device in set order, a comma after
\* each, for Vfio; nothing for AsusMuxDgpu and None.
C21_ModprobeContent ==
    (Wrote /\ call.vendor = "Nvidia" /\ ret.result = "Ok" /\ call.devices # << >>) =>
        ret.content = StatedContent(call.mode, call.devices)

C21_Witness ==
    /\ Wrote /\ call.vendor = "Nvidia" /\ ret.result = "Ok"
    /\ call.mode = "Vfio"
    /\ call.devices = <<"10DE:2520", "10DE:228E">>
    /\ call.before = <<"MODPROBE_NVIDIA_BASE", "MODPROBE_NVIDIA_DRM_MODESET_OFF",
                       "MODPROBE_NVIDIA_EC_BKLT">>
    /\ ret.content = <<"MODPROBE_INTEGRATED", "MODPROBE_VFIO", "10DE:2520", ",",
                       "10DE:228E", ",">>

CheckedTwice == call.fn = "check_vulkan_icd" /\ ret.kind = "Checked" /\ ret.times = 2

\* C23: for every mode and every presence of the ICD file and of its _inactive
\* counterpart, check_vulkan_icd(m) applied again after it succeeded succeeds and
\* leaves the two files as the first application left them.
C23_VulkanIcdIdempotent ==
    (CheckedTwice /\ ret.first.result = "Ok") =>
        (ret.second.icd = ret.first.icd /\ ret.second.result = "Ok")

C23_Witness ==
    /\ CheckedTwice /\ call.mode = "Integrated" /\ call.icd = "both"
    /\ ret.first = [icd |-> "inactive", result |-> "Ok"]
    /\ ret.second = [icd |-> "inactive", result |-> "Ok"]

Unbound == call.fn = "unbind_remove" /\ ret.kind = "Unbound"

OnlyNode(log, node) == SelectSeq(log, LAMBDA w : w.node = node)

\* The devices written to come later and later in the reverse of the set order
LastFirst(log) == \A a, b \in 1..Len(log) : a < b => log[a].dev > log[b].dev

DevicesOf(log) == {log[k].dev : k \in 1..Len(log)}

\* C24: unbind_remove on a device set with a known vendor writes to the unbind node
\* of the devices last first, then to the remove node of the devices last first; a
\* device with no driver bound is passed over without an error, and when every write
\* succeeds every device with a driver was unbound and every present device removed.
C24_ReverseOrder ==
    (Unbound /\ call.vendor # "Unknown") =>
        LET U == OnlyNode(ret.log, "unbind")
            R == OnlyNode(ret.log, "remove")
        IN  /\ ret.log = U \o R
            /\ LastFirst(U) /\ LastFirst(R)
            /\ \A i \in DevicesOf(U) : call.devices[i].driver
            /\ \A i \in DevicesOf(R) : call.devices[i].present
            /\ ret.result = "Ok" =>
                  /\ DevicesOf(U) = {i \in 1..Len(call.devices) : call.devices[i].driver}
                  /\ DevicesOf(R) = {i \in 1..Len(call.devices) : call.devices[i].present}

C24_Witness ==
    /\ Unbound /\ call.vendor = "Nvidia" /\ ret.result = "Ok"
    /\ call.devices = <<[driver |-> TRUE, present |-> TRUE],
                        [driver |-> FALSE, present |-> TRUE]>>
    /\ ret.log = <<[node |-> "unbind", dev |-> 1], [node |-> "remove", dev |-> 2],
                   [node |-> "remove", dev |-> 1]>>

ModulesDone == call.fn = "do_driver_action" /\ ret.kind = "Modules"

DriversOf(log) == [k \in 1..Len(log) |-> log[k].driver]

\* C25 as stated: for an Nvidia dGPU, LoadGpuDrivers loads the drivers nvidia_drm,
\* nvidia_modeset, nvidia_uvm, nvidia in that order and UnloadGpuDrivers unloads them
\* in the reverse order.
C25_DriverOrder_AsStated ==
    (ModulesDone /\ call.vendor = "Nvidia" /\ ret.result = "Ok") =>
        DriversOf(ret.log) =
            IF call.action = "Load"
            THEN <<"nvidia_drm", "nvidia_modeset", "nvidia_uvm", "nvidia">>
            ELSE <<"nvidia", "nvidia_uvm", "nvidia_modeset", "nvidia_drm">>

\* C25 as amended: for an Nvidia dGPU, LoadGpuDrivers and UnloadGpuDrivers both walk
\* the drivers nvidia_drm, nvidia_modeset, nvidia_uvm, nvidia in that order and stop
\* at the first driver whose action fails; for every other vendor no module action
\* is run and the step succeeds.
C25_DriverOrder_Amended ==
    /\ (ModulesDone /\ call.vendor = "Nvidia") =>
          /\ Len(ret.log) <= 4
          /\ DriversOf(ret.log) =
                SubSeq(<<"nvidia_drm", "nvidia_modeset", "nvidia_uvm", "nvidia">>,
                       1, Len(ret.log))
          /\ \A k \in 1..Len(ret.log) : ret.log[k].action = call.action
          /\ ret.result = "Ok" => Len(ret.log) = 4
          /\ ret.result = "Err" => Len(ret.log) >= 1
    /\ (ModulesDone /\ call.vendor # "Nvidia") =>
          (ret.log = << >> /\ ret.result = "Ok")

C25_Witness ==
    /\ ModulesDone /\ call.vendor = "Nvidia" /\ call.action = "Remove"
    /\ ret.result = "Ok"
    /\ DriversOf(ret.log) = <<"nvidia_drm", "nvidia_modeset", "nvidia_uvm", "nvidia">>

GpuReturned == call.fn = "new" /\ ret.kind = "Gpu" /\ ret.result = "Ok"

Dgpus(devices) == {i \in 1..Len(devices) : devices[i].is_dgpu}

\* C26 as stated: after DiscreetGpu::new succeeded and after the RescanPci step, the
\* device set is not empty and exactly one of its devices has is_dgpu = true.
C26_DeviceSet_AsStated ==
    GpuReturned =>
        (ret.gpu.devices # << >> /\ Cardinality(Dgpus(ret.gpu.devices)) = 1)

\* C26 as amended: after DiscreetGpu::new succeeded and after the RescanPci step, the
\* device set is empty (Device::find found no dGPU or failed; the vendor is then
\* Unknown, AsusDgpuDisabled or Nvidia, as the ASUS controls say) or its first device
\* has is_dgpu = true; further devices of the set may have is_dgpu = true as well,
\* and the vendor and dgpu_index are those of the last such device.
C26_DeviceSet_Amended ==
    GpuReturned =>
        IF ret.gpu.devices = << >>
        THEN ret.gpu.vendor \in {"Unknown", "AsusDgpuDisabled", "Nvidia"}
                /\ ret.gpu.dgpu_index = 0
        ELSE /\ ret.gpu.devices[1].is_dgpu
             /\ ret.gpu.dgpu_index + 1 \in Dgpus(ret.gpu.devices)
             /\ \A i \in Dgpus(ret.gpu.devices) : i <= ret.gpu.dgpu_index + 1
             /\ ret.gpu.vendor = ret.gpu.devices[ret.gpu.dgpu_index + 1].vendor

C26_Witness ==
    /\ GpuReturned /\ ret.after = "rescan"
    /\ ret.gpu.devices = << >>
    /\ ret.gpu.vendor = "AsusDgpuDisabled"

Loaded == call.fn = "load" /\ ret.kind = "Loaded"

\* C27 as stated: the keys of the configuration document that GfxConfig has no field
\* for are still in the file after GfxConfig::load has read and rewritten it.
C27_UnknownFields_AsStated ==
    (Loaded /\ call.doc.kind = "json") => ret.file.unknown = call.doc.unknown

\* C27 as amended: after GfxConfig::load has read and rewritten a document with
\* every current field, the file holds the values of those fields as they were and
\* none of the keys GfxConfig has no field for.
C27_UnknownFields_Amended ==
    (Loaded /\ call.doc.kind = "json") =>
        /\ ret.file.fields = call.doc.fields
        /\ ret.file.unknown = {}
        /\ Serialize(ret.config) = call.doc.fields

C27_Witness ==
    /\ Loaded /\ call.doc.kind = "json"
    /\ call.doc.unknown = {"fan_curve"}
    /\ call.doc.fields.mode = "Integrated"
    /\ ret.file.fields.mode = "Integrated"
    /\ ret.file.unknown = {}

\* The device of the enumeration that a device of the set was made from
Scanned(d) == ret.scan[d.name[2]]

CapturedDevices == {ret.gpu.devices[i] : i \in 1..Len(ret.gpu.devices)}

C31_LabelFallback_AsStated ==
    (/\ ret.kind = "Found"
     /\ call.dev.id \in GpuIds
     /\ ~HwmonCheck(call.dev, DisplayCheck(call.dev))
     /\ \E pat \in DgpuPatterns : LabelContains(call.label, pat)) =>
        /\ ret.result = "Ok"
        /\ \E i \in 1..Len(ret.devices) : ret.devices[i].is_dgpu

\* C40 as stated: after read() on a non-empty valid file, config_path, tmp_mode,
\* pending_mode and pending_action have the values they had before the call, and a
\* following write() targets the same configuration file.
C40_ReadKeepsTransient_AsStated ==
    (ret.kind = "Read" /\ call.doc.kind = "json") =>
        /\ ret.config.config_path = call.self.config_path
        /\ ret.config.tmp_mode = call.self.tmp_mode
        /\ ret.config.pending_mode = call.self.pending_mode
        /\ ret.config.pending_action = call.self.pending_action
        /\ ret.after = "write" => (ret.result = "Ok" /\ ret.path = call.self.config_path)

=============================================================================
